---- MODULE Spec2Model ----
(***************************************************************************)
(* config-wizard: the key-path state store and the recursive render and   *)
(* collect engine of the Streamlit backend.                                *)
(*                                                                         *)
(* Python values are tagged records [k, a, c]: k is the Python type, a    *)
(* the text of a string, c the ordered entries [key, val] of a dict, list,*)
(* tuple or set (key is "" for the items of a sequence).  Key paths are   *)
(* real strings; they are joined with \o and split character by character.*)
(***************************************************************************)
EXTENDS Integers, Sequences, FiniteSets, TLC

\* ------------------------------------------------------------- bounds ---
MaxWalks == 3
MaxLen == 2
MaxDirect == 2
\* the call depth at which the interpreter raises RecursionError
RecursionLimit == 10
\* walks over a session shared by two wizards
MaxSessionWalks == 2
\* keys handed to get_next_key, and add actions that follow
MaxKeys == 2
\* entries of the mapping handed to unpack_additional_properties
MaxEntries == 2
\* branches of a union property
MaxBranches == 2

\* ---------------------------------------------------------- constants ---
KEY_SEPARATOR == "."
ADDITIONAL_PROPERTIES_KEY == "__additional_properties__"

\* ------------------------------------------------------ Python values ---
Val(k, a, c) == [k |-> k, a |-> a, c |-> c]
Entry(key, val) == [key |-> key, val |-> val]
PyNone == Val("none", "", <<>>)
PyStr(s) == Val("str", s, <<>>)
EmptyDict == Val("dict", "", <<>>)
PyDict(entries) == Val("dict", "", entries)
PySeq(k, vals) == Val(k, "", [i \in 1..Len(vals) |-> Entry("", vals[i])])
PyList(vals) == PySeq("list", vals)
\* an int, held by its decimal text
PyInt(text) == Val("int", text, <<>>)
ItemsOf(v) == [i \in 1..Len(v.c) |-> v.c[i].val]
KeysOf(entries) == [i \in 1..Len(entries) |-> entries[i].key]
IsNone(v) == v.k = "none"
IsDict(v) == v.k = "dict"

HasKey(entries, key) == \E i \in 1..Len(entries) : entries[i].key = key
Lookup(entries, key) == entries[CHOOSE i \in 1..Len(entries) : entries[i].key = key].val
\* d[key] = val on a dict: an existing key keeps its position, a new key is appended
Assign(entries, key, val) ==
    IF HasKey(entries, key)
    THEN [i \in 1..Len(entries) |->
            IF entries[i].key = key THEN Entry(key, val) ELSE entries[i]]
    ELSE Append(entries, Entry(key, val))

IsSubstring(part, s) ==
    \E i \in 1..(Len(s) - Len(part) + 1) : SubSeq(s, i, i + Len(part) - 1) = part

\* `part in container` for a string part: "yes", "no", or "raise" (TypeError)
PyIn(part, node) ==
    CASE node.k = "dict" -> IF HasKey(node.c, part) THEN "yes" ELSE "no"
      [] node.k \in {"list", "tuple", "set"} ->
            IF \E i \in 1..Len(node.c) : node.c[i].val = PyStr(part) THEN "yes" ELSE "no"
      [] node.k = "str" -> IF part = "" \/ IsSubstring(part, node.a) THEN "yes" ELSE "no"
      [] OTHER -> "raise"

\* container[part] = val with a string part: only a dict supports it
SetItem(node, part, val) ==
    IF IsDict(node)
    THEN [node |-> PyDict(Assign(node.c, part, val)), err |-> FALSE]
    ELSE [node |-> node, err |-> TRUE]

\* container[part] with a string part that `in` reported present
GetItem(node, part) ==
    IF IsDict(node) /\ HasKey(node.c, part)
    THEN [val |-> Lookup(node.c, part), err |-> FALSE]
    ELSE [val |-> PyNone, err |-> TRUE]

\* ---------------------------------------------------------- key paths ---
RECURSIVE SplitFrom(_, _, _)
SplitFrom(s, i, cur) ==
    IF i > Len(s) THEN <<cur>>
    ELSE IF SubSeq(s, i, i) = KEY_SEPARATOR
         THEN <<cur>> \o SplitFrom(s, i + 1, "")
         ELSE SplitFrom(s, i + 1, cur \o SubSeq(s, i, i))

\* key.split(KEY_SEPARATOR)
Split(key) == SplitFrom(key, 1, "")

\* ---------------------------------------------------- key-path store ---
RECURSIVE StoreAt(_, _, _)
StoreAt(node, parts, value) ==
    LET part == Head(parts) IN
    IF Len(parts) = 1 THEN SetItem(node, part, value)
    ELSE LET inn == PyIn(part, node) IN
         IF inn = "raise" THEN [node |-> node, err |-> TRUE]
         ELSE LET made == IF inn = "no" THEN SetItem(node, part, EmptyDict)
                                        ELSE [node |-> node, err |-> FALSE] IN
              IF made.err THEN made
              ELSE LET child == GetItem(made.node, part) IN
                   IF child.err THEN [node |-> made.node, err |-> TRUE]
                   ELSE LET sub == StoreAt(child.val, Tail(parts), value) IN
                        [node |-> SetItem(made.node, part, sub.node).node, err |-> sub.err]

\* _store_value(key, value) on the store `st`: the new store and whether it raised
store_value(st, key, value) ==
    LET with_r(r) ==
            [st |-> r.node, err |-> r.err]
    IN  with_r(StoreAt(st, Split(key), value))

RECURSIVE GetAt(_, _)
GetAt(node, parts) ==
    LET part == Head(parts)
        inn == PyIn(part, node) IN
    IF inn = "raise" THEN [node |-> node, val |-> PyNone, err |-> TRUE]
    ELSE IF Len(parts) = 1
    THEN IF inn = "no" THEN [node |-> node, val |-> PyNone, err |-> FALSE]
         ELSE LET got == GetItem(node, part) IN
              [node |-> node, val |-> got.val, err |-> got.err]
    ELSE LET made == IF inn = "no" THEN SetItem(node, part, EmptyDict)
                                   ELSE [node |-> node, err |-> FALSE] IN
         IF made.err THEN [node |-> node, val |-> PyNone, err |-> TRUE]
         ELSE LET child == GetItem(made.node, part) IN
              IF child.err THEN [node |-> made.node, val |-> PyNone, err |-> TRUE]
              ELSE LET sub == GetAt(child.val, Tail(parts)) IN
                   [node |-> SetItem(made.node, part, sub.node).node,
                    val |-> sub.val, err |-> sub.err]

\* a read that also leaves the leaf behind, as `state.setdefault(part)` would
get_value_setdefault(st, key) ==
    LET with_r(r) ==
            [st |-> IF ~r.err /\ IsNone(r.val) THEN StoreAt(r.node, Split(key), PyNone).node
                    ELSE r.node,
             val |-> r.val, err |-> r.err]
    IN  with_r(GetAt(st, Split(key)))

\* _get_value(key) on the store `st`: the store after the read, the value, raised?
get_value(st, key) ==
    LET with_r(r) ==
            [st |-> r.node, val |-> r.val, err |-> r.err]
    IN  with_r(GetAt(st, Split(key)))

\* ------------------------------------------------------------ schemas ---
\* A resolved schema node.  Absent (None) is <<>> for optional nodes, values
\* and sequences, NoneInt for the integer constraints, FALSE for the flags.
NoneInt == -1
NoAdditional == [kind |-> "none", b |-> FALSE, s |-> <<>>]
AdditionalBool(b) == [kind |-> "bool", b |-> b, s |-> <<>>]
AdditionalSchema(s) == [kind |-> "schema", b |-> FALSE, s |-> <<s>>]
Prop(key, schema) == [key |-> key, schema |-> schema]

\* ResolvedSchema(): every field unset, type defaulting to object
ResolvedSchema ==
    [type |-> "object", format |-> "", title |-> "", enum |-> <<>>, const |-> <<>>,
     discriminator |-> "", anyOf |-> <<>>, oneOf |-> <<>>,
     properties |-> <<>>, required |-> {}, items |-> <<>>, prefixItems |-> <<>>,
     additionalProperties |-> NoAdditional,
     minItems |-> NoneInt, maxItems |-> NoneInt,
     uniqueItems |-> FALSE, readOnly |-> FALSE, default |-> <<>>,
     multipleOf |-> <<>>, minimum |-> <<>>, exclusiveMinimum |-> <<>>,
     maximum |-> <<>>, exclusiveMaximum |-> <<>>, pattern |-> ""]

\* truthiness of schema.additionalProperties
HasAdditionalProperties(schema) ==
    \/ schema.additionalProperties.kind = "schema"
    \/ schema.additionalProperties.kind = "bool" /\ schema.additionalProperties.b

\* classifiers that test in another order: anyOf/oneOf before the
\* discriminator, uniqueItems before prefixItems, additionalProperties before
\* properties
classify_variant(prop, union_first, set_first, dict_first) ==
    LET union == prop.anyOf # <<>> \/ prop.oneOf # <<>> IN
    IF prop.enum # <<>> THEN "enum"
    ELSE IF union_first /\ union THEN "union"
    ELSE IF prop.discriminator # "" THEN "discriminated_union"
    ELSE IF union THEN "union"
    ELSE CASE prop.type = "string" ->
                 IF prop.format \in {"email", "password", "uri", "uuid", "ipv4", "ipv6"}
                 THEN prop.format ELSE "text"
           [] prop.type = "number" -> "float"
           [] prop.type = "integer" -> "integer"
           [] prop.type = "boolean" -> "boolean"
           [] prop.type = "array" ->
                 IF set_first /\ prop.uniqueItems THEN "set"
                 ELSE IF prop.prefixItems # <<>> THEN "tuple"
                 ELSE IF prop.uniqueItems THEN "set"
                 ELSE "list"
           [] prop.type = "object" ->
                 IF dict_first /\ HasAdditionalProperties(prop) THEN "dict"
                 ELSE IF prop.properties # <<>> THEN "object"
                 ELSE IF HasAdditionalProperties(prop) THEN "dict"
                 ELSE "any"
           [] prop.type = "null" -> "null"
           [] OTHER -> "any"
property_to_input_type_union_first(prop) == classify_variant(prop, TRUE, FALSE, FALSE)
property_to_input_type_set_first(prop) == classify_variant(prop, FALSE, TRUE, FALSE)
property_to_input_type_dict_first(prop) == classify_variant(prop, FALSE, FALSE, TRUE)

\* property_to_input_type(prop)
property_to_input_type(prop) ==
    IF prop.enum # <<>> THEN "enum"
    ELSE IF prop.discriminator # "" THEN "discriminated_union"
    ELSE IF prop.anyOf # <<>> \/ prop.oneOf # <<>> THEN "union"
    ELSE CASE prop.type = "string" ->
                 IF prop.format \in {"email", "password", "uri", "uuid", "ipv4", "ipv6"}
                 THEN prop.format ELSE "text"
           [] prop.type = "number" -> "float"
           [] prop.type = "integer" -> "integer"
           [] prop.type = "boolean" -> "boolean"
           [] prop.type = "array" ->
                 IF prop.prefixItems # <<>> THEN "tuple"
                 ELSE IF prop.uniqueItems THEN "set"
                 ELSE "list"
           [] prop.type = "object" ->
                 IF prop.properties # <<>> THEN "object"
                 ELSE IF HasAdditionalProperties(prop) THEN "dict"
                 ELSE "any"
           [] prop.type = "null" -> "null"
           [] OTHER -> "any"

\* the members of InputType
InputType ==
    {"text", "email", "password", "uri", "uuid", "file_path", "directory_path",
     "ipv4", "ipv6", "integer", "float", "date", "time", "datetime", "duration",
     "boolean", "enum", "list", "tuple", "set", "dict", "object", "union",
     "discriminated_union", "any", "null"}

\* an is_complex that leaves the two union kinds out
is_complex_no_union(kind) == kind \in {"list", "tuple", "set", "dict", "object"}

\* InputType.is_complex
is_complex(kind) ==
    kind \in {"list", "tuple", "set", "dict", "object", "union", "discriminated_union"}

\* ----------------------------------------------------- button policies ---
\* _is_add_button_disabled(property_schema, current_length)
is_add_button_disabled(schema, currentLength) ==
    IF schema.readOnly THEN TRUE
    ELSE IF schema.maxItems # NoneInt /\ currentLength >= schema.maxItems THEN TRUE
    ELSE FALSE

\* _is_clear_button_disabled(property_schema)
is_clear_button_disabled(schema) ==
    IF schema.readOnly THEN FALSE
    ELSE TRUE

\* _is_remove_button_disabled(property_schema, current_length)
is_remove_button_disabled(schema, currentLength) ==
    IF schema.readOnly THEN TRUE
    ELSE IF schema.minItems # NoneInt /\ currentLength <= schema.minItems THEN TRUE
    ELSE FALSE

\* ------------------------------------------------- host (Streamlit) ---
\* One walk's input: the button the user pressed (at most one press causes
\* a rerun) and the values the user has entered in the keyed widgets.
NoClick == <<"", "">>
\* What a walk put on the page: the enabled buttons, the editable inputs, and
\* one record per collection rendered (its lengths and the state of its buttons).
\* For the mappings rendered it also keeps what each entry contributed (entries)
\* and what the whole mapping returned (dicts).
\* errors holds the validation errors shown next to the fields.
NoUi == [add |-> {}, clear |-> {}, remove |-> {}, input |-> {}, keyin |-> {},
         colls |-> {}, entries |-> {}, dicts |-> {}, errors |-> {}]
\* what a validation error on the page is recorded as: the key of the field and
\* which check failed ("pattern", "duplicates", "json")
FieldError(key, what) == [key |-> key, what |-> what]
UiUnion(a, b) ==
    [add |-> a.add \cup b.add, clear |-> a.clear \cup b.clear,
     remove |-> a.remove \cup b.remove, input |-> a.input \cup b.input,
     keyin |-> a.keyin \cup b.keyin, colls |-> a.colls \cup b.colls,
     entries |-> a.entries \cup b.entries, dicts |-> a.dicts \cup b.dicts,
     errors |-> a.errors \cup b.errors]

\* button(key=id, disabled=...): true only for the enabled button that was pressed
Button(inp, kind, id, disabled) == ~disabled /\ inp.click = <<kind, id>>

\* a keyed input widget: what the user entered, else the value it was given
WidgetValue(inp, key, value) ==
    IF key \in DOMAIN inp.widgets THEN inp.widgets[key] ELSE value

\* result of a render step: store, returned value, raised?, widgets on the page
R(st, val, err, ui) == [st |-> st, val |-> val, err |-> err, ui |-> ui]

RunId == "0"
WizardKey == "w"
\* _get_default_streamlit_input_kwargs(...)["key"]; inp.key is self.key
InputKey(inp, property_key) == RunId \o "-" \o inp.key \o "-" \o property_key
\* _get_default_streamlit_input_kwargs(...)["value"]
DefaultOf(schema) == IF schema.default = <<>> THEN PyNone ELSE schema.default[1]

Digits == "0123456789"
IsDigit(c) == \E d \in 1..10 : SubSeq(Digits, d, d) = c
DigitVal(c) == (CHOOSE d \in 1..10 : SubSeq(Digits, d, d) = c) - 1
RECURSIVE IntToStr(_)
\* str(n) for n >= 0
IntToStr(n) ==
    IF n < 10 THEN SubSeq(Digits, n + 1, n + 1)
    ELSE IntToStr(n \div 10) \o SubSeq(Digits, (n % 10) + 1, (n % 10) + 1)

Nones(n) == [i \in 1..n |-> PyNone]
\* [None] * (minItems if minItems is not None else 0)
MinItemsNones(schema) == Nones(IF schema.minItems # NoneInt THEN schema.minItems ELSE 0)

\* list(value)
py_list(v) ==
    CASE v.k \in {"list", "tuple", "set"} -> ItemsOf(v)
      [] v.k = "dict" -> [i \in 1..Len(v.c) |-> PyStr(v.c[i].key)]
      [] v.k = "str" -> [i \in 1..Len(v.a) |-> PyStr(SubSeq(v.a, i, i))]
      [] OTHER -> <<>>

RECURSIVE IsHashable(_)
IsHashable(v) ==
    \/ v.k \in {"none", "str"}
    \/ v.k = "tuple" /\ \A i \in 1..Len(v.c) : IsHashable(v.c[i].val)

\* set(values): the distinct values, kept in the order of their first occurrence
\* (the iteration order of a Python set is not modelled)
Dedupe(vals) ==
    LET keep == {i \in 1..Len(vals) : \A j \in 1..(i - 1) : vals[j] # vals[i]}
        F[i \in 0..Len(vals)] ==
            IF i = 0 THEN <<>>
            ELSE IF i \in keep THEN Append(F[i - 1], vals[i]) ELSE F[i - 1]
    IN F[Len(vals)]

\* the record of one rendered collection: init is the length it started the walk
\* with, n the length after add and clear, out the length of the returned value
Coll(key, kind, schema, init, n, out, rm) ==
    [key |-> key, kind |-> kind, init |-> init, n |-> n, out |-> out,
     dlen |-> IF schema.default = <<>> THEN NoneInt ELSE Len(py_list(schema.default[1])),
     min |-> schema.minItems, max |-> schema.maxItems, ro |-> schema.readOnly,
     add |-> ~is_add_button_disabled(schema, init),
     clr |-> ~is_clear_button_disabled(schema), rm |-> rm]

\* --------------------------------------------------------- leaf inputs ---
\* a keyed value widget (text_input, toggle, number_input, selectbox, ...)
render_widget_input(st, property_key, schema, inp) ==
    R(st, WidgetValue(inp, InputKey(inp, property_key), DefaultOf(schema)), FALSE,
      [NoUi EXCEPT !.input = IF schema.readOnly THEN {} ELSE {InputKey(inp, property_key)}])


\* _render_enum_input: [err: the exception raised ("" is none), val: the value
\* returned, prompted: a selectbox was rendered].  options.index(default_value)
\* raises ValueError for a default that is not an option.
enum_input(property_key, schema, inp) ==
    LET options == schema.enum
        at == {i \in 1..Len(options) : PyStr(options[i]) = DefaultOf(schema)}
        key == InputKey(inp, property_key)
        held == key \in DOMAIN inp.widgets
                    /\ \E i \in 1..Len(options) : inp.widgets[key] = PyStr(options[i])
    IN  IF ~IsNone(DefaultOf(schema)) /\ at = {}
        THEN [err |-> "ValueError", val |-> PyNone, prompted |-> FALSE]
        ELSE IF Len(options) = 1
        THEN [err |-> "", val |-> PyStr(options[1]), prompted |-> FALSE]
        ELSE [err |-> "", prompted |-> TRUE,
              val |-> IF held THEN inp.widgets[key]
                      ELSE PyStr(options[IF at = {} THEN 1 ELSE CHOOSE i \in at : \A j \in at : i <= j])]

\* _render_enum_input as a render step
render_enum_input(st, property_key, schema, inp) ==
    LET with_e(e) ==
            R(st, e.val, e.err # "",
              [NoUi EXCEPT !.input = IF schema.readOnly \/ ~e.prompted THEN {}
                                     ELSE {InputKey(inp, property_key)}])
    IN  with_e(enum_input(property_key, schema, inp))

Uppers == "ABCDEFGHIJKLMNOPQRSTUVWXYZ"
Lowers == "abcdefghijklmnopqrstuvwxyz"
IsUpper(c) == \E i \in 1..26 : SubSeq(Uppers, i, i) = c
\* c.lower()
ToLower(c) ==
    IF IsUpper(c) THEN LET i == CHOOSE i \in 1..26 : SubSeq(Uppers, i, i) = c
                       IN  SubSeq(Lowers, i, i)
    ELSE c

\* ------------------------------------------------------- text inputs ---
EmailPattern == "^[a-zA-Z0-9_.+-]+@[a-zA-Z0-9-]+\\.[a-zA-Z0-9-.]+$"
UuidPattern == "^[0-9a-f]{8}-[0-9a-f]{4}-[0-9a-f]{4}-[0-9a-f]{4}-[0-9a-f]{12}$"
UriPattern == "^(.+://)?[^\\s/$.?#].[^\\s]*$"
Ipv4Pattern ==
    "^(25[0-5]|2[0-4][0-9]|[01]?[0-9][0-9]?)\\.(25[0-5]|2[0-4][0-9]|[01]?[0-9][0-9]?)"
    \o "\\.(25[0-5]|2[0-4][0-9]|[01]?[0-9][0-9]?)\\.(25[0-5]|2[0-4][0-9]|[01]?[0-9][0-9]?)$"
Ipv6Pattern == "^([0-9a-fA-F]{1,4}:){7}[0-9a-fA-F]{1,4}$"
PathPattern == "^([a-zA-Z]:)?(\\\\[a-zA-Z0-9_.-]+)+\\\\?$"
\* a pattern declared in a schema: the one-letter text x
DeclaredPattern == "^x$"

\* the pattern and the error message _render_text_input assigns to a kind
BuiltinPattern(input_type) ==
    CASE input_type = "email" -> EmailPattern
      [] input_type = "uuid" -> UuidPattern
      [] input_type = "uri" -> UriPattern
      [] input_type = "ipv4" -> Ipv4Pattern
      [] input_type = "ipv6" -> Ipv6Pattern
      [] input_type \in {"file_path", "directory_path"} -> PathPattern
      [] OTHER -> ""
KindMessage(input_type) ==
    CASE input_type = "email" -> "Please enter a valid email address."
      [] input_type = "uuid" -> "Please enter a valid UUID."
      [] input_type = "uri" -> "Please enter a valid URI."
      [] input_type = "ipv4" -> "Please enter a valid IPv4 address."
      [] input_type = "ipv6" -> "Please enter a valid IPv6 address."
      [] input_type = "file_path" -> "Please enter a valid file path."
      [] input_type = "directory_path" -> "Please enter a valid directory path."
      [] OTHER -> ""

CharIn(c, chars) == \E i \in 1..Len(chars) : SubSeq(chars, i, i) = c
AllIn(s, chars) == \A i \in 1..Len(s) : CharIn(SubSeq(s, i, i), chars)
Alnum == Lowers \o Uppers \o Digits
\* s.split(sep) for a separator of one character
Segments(s, sep) ==
    LET add(done, c) == IF c = sep THEN Append(done, "")
                        ELSE [done EXCEPT ![Len(done)] = @ \o c]
        F[i \in 0..Len(s)] == IF i = 0 THEN <<"">> ELSE add(F[i - 1], SubSeq(s, i, i))
    IN  F[Len(s)]

\* text matches [a-zA-Z0-9_.+-]+@[a-zA-Z0-9-]+\.[a-zA-Z0-9-.]+ from end to end
IsEmail(s) ==
    \E i \in 2..Len(s), j \in 3..Len(s) :
        /\ SubSeq(s, i, i) = "@" /\ SubSeq(s, j, j) = "." /\ j > i + 1 /\ j < Len(s)
        /\ AllIn(SubSeq(s, 1, i - 1), Alnum \o "_.+-")
        /\ AllIn(SubSeq(s, i + 1, j - 1), Alnum \o "-")
        /\ AllIn(SubSeq(s, j + 1, Len(s)), Alnum \o "-.")
\* 8-4-4-4-12 lower-case hexadecimal digits
IsUuid(s) ==
    LET groups == Segments(s, "-") IN
    /\ Len(groups) = 5
    /\ <<Len(groups[1]), Len(groups[2]), Len(groups[3]), Len(groups[4]), Len(groups[5])>>
           = <<8, 4, 4, 4, 12>>
    /\ \A g \in 1..5 : AllIn(groups[g], Digits \o "abcdef")
\* (.+://)?[^\s/$.?#].[^\s]*: after an optional prefix that ends in ://, a
\* character that is none of space / $ . ? #, any character, then no space
IsUri(s) ==
    \E p \in 1..Len(s) :
        /\ p = 1 \/ (p >= 5 /\ SubSeq(s, p - 3, p - 1) = "://")
        /\ ~CharIn(SubSeq(s, p, p), " /$.?#")
        /\ Len(s) >= p + 1
        /\ \A i \in (p + 2)..Len(s) : SubSeq(s, i, i) # " "
\* 25[0-5] | 2[0-4][0-9] | [01]?[0-9][0-9]?
IsOctet(g) ==
    /\ Len(g) \in 1..3 /\ AllIn(g, Digits)
    /\ Len(g) = 3 =>
          \/ CharIn(SubSeq(g, 1, 1), "01")
          \/ SubSeq(g, 1, 1) = "2" /\ CharIn(SubSeq(g, 2, 2), "01234")
          \/ SubSeq(g, 1, 2) = "25" /\ CharIn(SubSeq(g, 3, 3), "012345")
IsIpv4(s) ==
    LET groups == Segments(s, ".") IN
    Len(groups) = 4 /\ \A g \in 1..4 : IsOctet(groups[g])
IsIpv6(s) ==
    LET groups == Segments(s, ":") IN
    /\ Len(groups) = 8
    /\ \A g \in 1..8 : Len(groups[g]) \in 1..4 /\ AllIn(groups[g], Digits \o "abcdefABCDEF")
\* ([a-zA-Z]:)?(\\[a-zA-Z0-9_.-]+)+\\?
IsPath(s) ==
    \E p \in {1, 3} :
        /\ p = 3 => Len(s) >= 2 /\ CharIn(SubSeq(s, 1, 1), Lowers \o Uppers)
                                /\ SubSeq(s, 2, 2) = ":"
        /\ Len(s) >= p + 1 /\ SubSeq(s, p, p) = "\\"
        /\ AllIn(SubSeq(s, p, Len(s)), Alnum \o "_.-\\")
        /\ \A i \in p..(Len(s) - 1) : SubSeq(s, i, i + 1) # "\\\\"

\* re.match(pattern, text) is not None, for the patterns above
re_match(pattern, text) ==
    CASE pattern = EmailPattern -> IsEmail(text)
      [] pattern = UuidPattern -> IsUuid(text)
      [] pattern = UriPattern -> IsUri(text)
      [] pattern = Ipv4Pattern -> IsIpv4(text)
      [] pattern = Ipv6Pattern -> IsIpv6(text)
      [] pattern = PathPattern -> IsPath(text)
      [] pattern = DeclaredPattern -> text = "x"

\* the message shown when the text does not match: error_message, or the
\* generic one when no error_message was assigned
text_error(error_message, pattern) ==
    IF error_message # "" THEN error_message
    ELSE "Invalid format, expected format: " \o pattern

\* a _render_text_input that returns nothing for a text that does not match
text_input_discard(property_key, schema, input_type, inp) ==
    LET assigned == schema.pattern = "" /\ BuiltinPattern(input_type) # ""
        pattern == IF assigned THEN BuiltinPattern(input_type) ELSE schema.pattern
        error_message == IF assigned THEN KindMessage(input_type) ELSE ""
        input_value == WidgetValue(inp, InputKey(inp, property_key), DefaultOf(schema))
        mismatch == /\ pattern # "" /\ input_value.k = "str" /\ input_value.a # ""
                    /\ ~re_match(pattern, input_value.a)
    IN  [val |-> IF mismatch THEN PyNone ELSE input_value,
         schema |-> [schema EXCEPT !.pattern = pattern],
         msg |-> IF mismatch THEN text_error(error_message, pattern) ELSE ""]

\* _render_text_input: [val: the text returned, msg: the validation error shown
\* ("" is none), schema: the schema object after the call].  A kind with a
\* built-in pattern has it assigned to property_schema.pattern when the schema
\* declares none; error_message is set in that assignment only.
text_input(property_key, schema, input_type, inp) ==
    LET assigned == schema.pattern = "" /\ BuiltinPattern(input_type) # ""
        pattern == IF assigned THEN BuiltinPattern(input_type) ELSE schema.pattern
        error_message == IF assigned THEN KindMessage(input_type) ELSE ""
        input_value == WidgetValue(inp, InputKey(inp, property_key), DefaultOf(schema))
        mismatch == /\ pattern # "" /\ input_value.k = "str" /\ input_value.a # ""
                    /\ ~re_match(pattern, input_value.a)
    IN  [val |-> input_value, schema |-> [schema EXCEPT !.pattern = pattern],
         msg |-> IF mismatch THEN text_error(error_message, pattern) ELSE ""]

\* _render_text_input as a render step
render_text_input(st, property_key, schema, inp) ==
    LET with_t(t) ==
            R(st, t.val, FALSE,
              [NoUi EXCEPT
                  !.input = IF schema.readOnly THEN {} ELSE {InputKey(inp, property_key)},
                  !.errors = IF t.msg = "" THEN {}
                             ELSE {FieldError(InputKey(inp, property_key), "pattern")}])
    IN  with_t(text_input(property_key, schema, property_to_input_type(schema), inp))

\* Numbers are kept in hundredths: 100 is 1, 1 is 0.01, 50 is 0.5.
Hundredths == 100
\* int(x): truncation toward zero
py_int(x) == IF x >= 0 THEN (x \div Hundredths) * Hundredths
             ELSE -(((-x) \div Hundredths) * Hundredths)
\* number(x) of _render_number_input: float for a float input, else int
number(input_type, x) == IF input_type = "float" THEN x ELSE py_int(x)

\* the keyword arguments _render_number_input builds, and the widget it
\* renders with them: a slider when both min_value and max_value are set
number_input(schema, input_type) ==
    LET step == IF schema.multipleOf # <<>> THEN number(input_type, schema.multipleOf[1])
                ELSE IF input_type = "float" THEN 1 ELSE Hundredths
        min_value == IF schema.exclusiveMinimum # <<>>
                     THEN <<number(input_type, schema.exclusiveMinimum[1]) + step>>
                     ELSE IF schema.minimum # <<>>
                          THEN <<number(input_type, schema.minimum[1])>> ELSE <<>>
        max_value == IF schema.exclusiveMaximum # <<>>
                     THEN <<number(input_type, schema.exclusiveMaximum[1]) - step>>
                     ELSE IF schema.maximum # <<>>
                          THEN <<number(input_type, schema.maximum[1])>> ELSE <<>>
    IN  [step |-> step, min_value |-> min_value, max_value |-> max_value,
         widget |-> IF min_value # <<>> /\ max_value # <<>> THEN "slider" ELSE "number_input"]

\* the positions of the quotation marks of a text
Quotes(text) == {i \in 1..Len(text) : SubSeq(text, i, i) = "\""}
\* the text is a JSON object of one member whose value is a string, written
\* without blanks and without escapes
IsJsonObject(text) ==
    /\ Len(text) >= 7
    /\ Cardinality(Quotes(text)) = 4
    /\ SubSeq(text, 1, 2) = "{\""
    /\ SubSeq(text, Len(text) - 1, Len(text)) = "\"}"
    /\ \E i \in Quotes(text) : i + 2 \in Quotes(text) /\ SubSeq(text, i + 1, i + 1) = ":"
    /\ \A i \in 1..Len(text) : SubSeq(text, i, i) # "\\"
\* the member of such an object: the name ends at quotation mark i
JsonMember(text, i) ==
    PyDict(<<Entry(SubSeq(text, 3, i - 1), PyStr(SubSeq(text, i + 3, Len(text) - 2)))>>)

\* json.loads restricted to what the inputs of this model can spell: null, and
\* an object of one string member; every other text entered is no JSON
json_loads(text) ==
    IF text = "null" THEN [ok |-> TRUE, val |-> PyNone]
    ELSE IF IsJsonObject(text)
    THEN [ok |-> TRUE,
          val |-> JsonMember(text, CHOOSE i \in Quotes(text) : i + 2 \in Quotes(text))]
    ELSE [ok |-> FALSE, val |-> PyNone]

\* a _render_any_input that returns nothing for a text that does not parse
render_any_input_discard(st, property_key, schema, inp) ==
    LET w == render_widget_input(st, property_key, schema, inp) IN
    IF w.val.k = "str" /\ w.val.a # ""
    THEN IF json_loads(w.val.a).ok THEN R(st, json_loads(w.val.a).val, FALSE, w.ui)
         ELSE R(st, PyNone, FALSE,
                [w.ui EXCEPT !.errors = {FieldError(InputKey(inp, property_key), "json")}])
    ELSE w

\* _render_any_input: the parsed value of a text that parses; else an error
\* next to the field and the text as entered
render_any_input(st, property_key, schema, inp) ==
    LET w == render_widget_input(st, property_key, schema, inp) IN
    IF w.val.k = "str" /\ w.val.a # ""
    THEN IF json_loads(w.val.a).ok THEN R(st, json_loads(w.val.a).val, FALSE, w.ui)
         ELSE R(st, w.val, FALSE,
                [w.ui EXCEPT !.errors = {FieldError(InputKey(inp, property_key), "json")}])
    ELSE w

\* ------------------------------------------------- collection inputs ---
RECURSIVE render_property(_, _, _, _)
RECURSIVE render_union_input(_, _, _, _, _)
RECURSIVE render_list_items(_, _, _, _, _, _, _, _, _)
RECURSIVE render_dict_entries(_, _, _, _, _, _, _, _)
RECURSIVE render_object_loop(_, _, _, _, _, _, _)

\* the deep copy _render_list_item_input prepares for the item
item_property_schema(property_schema, index, value) ==
    [property_schema EXCEPT !.title = "Item #" \o IntToStr(index + 1),
                            !.default = IF IsNone(value) THEN @ ELSE <<value>>]

\* _render_list_item_input: [r: the item's render result, removed]
render_list_item_input(st, index, current_length, value, property_key, property_schema, inp) ==
    LET disabled == is_remove_button_disabled(property_schema, current_length)
        shown == [NoUi EXCEPT !.remove =
                     IF disabled THEN {} ELSE {property_key \o "-remove"}]
    IN  IF Button(inp, "remove", property_key \o "-remove", disabled)
        THEN [r |-> R(st, PyNone, FALSE, shown), removed |-> TRUE]
        ELSE LET with_r(r) ==
                     [r |-> R(r.st, r.val, r.err, UiUnion(shown, r.ui)), removed |-> FALSE]
             IN  with_r(render_property(st, property_key, property_schema, inp))

\* the item loop of _render_list_input, from position i (1-based) on
render_list_items(st, property_key, property_schema, input_type, data_list, i, output_list, ui, inp) ==
    IF i > Len(data_list) THEN R(st, PyList(output_list), FALSE, ui)
    ELSE IF (IF input_type = "tuple" THEN i > Len(property_schema.prefixItems)
                                    ELSE property_schema.items = <<>>)
    THEN R(st, PyNone, TRUE, ui)
    ELSE LET with_it(it) ==
                 IF it.r.err THEN R(it.r.st, PyNone, TRUE, UiUnion(ui, it.r.ui))
                 ELSE render_list_items(it.r.st, property_key, property_schema, input_type,
                          data_list, i + 1,
                          IF it.removed THEN output_list ELSE Append(output_list, it.r.val),
                          UiUnion(ui, it.r.ui), inp)
         IN  with_it(render_list_item_input(st, i - 1, Len(data_list), data_list[i],
                 property_key \o KEY_SEPARATOR \o IntToStr(i - 1),
                 IF input_type = "tuple" THEN property_schema.prefixItems[i]
                                         ELSE property_schema.items[1],
                 inp))

\* the end of _render_list_input: the duplicate check of a set and the return
list_result(items, property_key, property_schema, input_type, initial, data_list) ==
    LET output_list == ItemsOf(items.val)
        result == CASE input_type = "list" -> PyList(output_list)
                    [] input_type = "tuple" -> PySeq("tuple", output_list)
                    [] input_type = "set" -> PySeq("set", Dedupe(output_list))
        duplicates == input_type = "set" /\ Len(output_list) # Len(Dedupe(output_list))
        page == UiUnion(items.ui, [NoUi EXCEPT
                    !.colls =
                        {Coll(property_key, input_type, property_schema, Len(initial),
                              Len(data_list), Len(result.c),
                              \E i \in 1..Len(data_list) :
                                  (property_key \o KEY_SEPARATOR \o IntToStr(i - 1) \o "-remove")
                                      \in items.ui.remove)},
                    !.errors = IF duplicates THEN {FieldError(property_key, "duplicates")}
                               ELSE {}])
    IN  IF items.err THEN items
        ELSE IF input_type = "set" /\ \E i \in 1..Len(output_list) : ~IsHashable(output_list[i])
        THEN R(items.st, PyNone, TRUE, items.ui)
        ELSE R(items.st, result, FALSE, page)

\* _render_list_input once the stored value has been read
list_input(got, property_key, property_schema, input_type, inp) ==
    LET stored_value == got.val
        initial == IF ~IsNone(stored_value) THEN py_list(stored_value)
                   ELSE IF ~IsNone(DefaultOf(property_schema))
                        THEN py_list(DefaultOf(property_schema))
                        ELSE MinItemsNones(property_schema)
        add_disabled == is_add_button_disabled(property_schema, Len(initial))
        added == IF Button(inp, "add", InputKey(inp, property_key) \o "-add-item", add_disabled)
                 THEN Append(initial, PyNone) ELSE initial
        clear_disabled == is_clear_button_disabled(property_schema)
        data_list == IF Button(inp, "clear", InputKey(inp, property_key) \o "-clear-items",
                               clear_disabled)
                     THEN MinItemsNones(property_schema) ELSE added
        shown == [NoUi EXCEPT
                    !.add = IF add_disabled THEN {}
                            ELSE {[id |-> InputKey(inp, property_key) \o "-add-item",
                                   n |-> Len(initial)]},
                    !.clear = IF clear_disabled THEN {}
                              ELSE {InputKey(inp, property_key) \o "-clear-items"}]
    IN  IF got.err THEN R(got.st, PyNone, TRUE, NoUi)
        ELSE list_result(render_list_items(got.st, property_key, property_schema,
                                           input_type, data_list, 1, <<>>, shown, inp),
                         property_key, property_schema, input_type, initial, data_list)

\* _render_list_input
render_list_input(st, property_key, property_schema, input_type, inp) ==
    list_input(get_value(st, property_key), property_key, property_schema, input_type, inp)

RECURSIVE ParseDigits(_, _, _)
ParseDigits(k, i, acc) ==
    IF i <= Len(k) /\ IsDigit(SubSeq(k, i, i))
    THEN ParseDigits(k, i + 1, acc * 10 + DigitVal(SubSeq(k, i, i)))
    ELSE acc

\* int(m.group(1)) for m = re.match(r"new_item_(\d+)", k), or -1 without a match
NewItemIndex(k) ==
    IF Len(k) >= 10 /\ SubSeq(k, 1, 9) = "new_item_" /\ IsDigit(SubSeq(k, 10, 10))
    THEN ParseDigits(k, 10, 0) ELSE -1

\* a get_next_key that numbers the new key by the count of the keys
get_next_key_count(keys) == "new_item_" \o IntToStr(Len(keys))

\* get_next_key(keys)
get_next_key(keys) ==
    LET idx == {NewItemIndex(keys[i]) : i \in 1..Len(keys)} \cup {-1}
        max_idx == CHOOSE m \in idx : \A n \in idx : n <= m
    IN  "new_item_" \o IntToStr(max_idx + 1)

\* _render_dict_item_input: [r: the value's render result, key: entered key, removed]
render_dict_item_input(st, current_length, key, value, property_key, property_schema, inp) ==
    LET value_schema == IF IsNone(value) THEN property_schema
                        ELSE [property_schema EXCEPT !.default = <<value>>]
        disabled == is_remove_button_disabled(property_schema, current_length)
        shown == [NoUi EXCEPT
                    !.remove = IF disabled THEN {} ELSE {property_key \o "-remove"},
                    !.keyin = IF property_schema.readOnly THEN {}
                              ELSE {property_key \o "-key"}]
    IN  IF Button(inp, "remove", property_key \o "-remove", disabled)
        THEN [r |-> R(st, PyNone, FALSE, [shown EXCEPT !.keyin = {}]),
              key |-> "", removed |-> TRUE]
        ELSE LET output_item_key ==
                     WidgetValue(inp, property_key \o "-key", PyStr(key)).a
                 with_r(r) ==
                     [r |-> R(r.st, r.val, r.err,
                              UiUnion([shown EXCEPT !.entries =
                                           {[at |-> property_key, item_key |-> key,
                                             output_item_key |-> output_item_key,
                                             val |-> r.val]}],
                                      r.ui)),
                      key |-> output_item_key,
                      removed |-> FALSE]
             IN  with_r(render_property(st, property_key \o "-value", value_schema, inp))

\* the entry loop of _render_dict_items, from position i (1-based) on
render_dict_entries(st, property_key, item_schema, data, i, output_dict, ui, inp) ==
    IF i > Len(data) THEN R(st, PyDict(output_dict), FALSE, ui)
    ELSE LET with_it(it) ==
                 IF it.r.err THEN R(it.r.st, PyNone, TRUE, UiUnion(ui, it.r.ui))
                 ELSE render_dict_entries(it.r.st, property_key, item_schema, data, i + 1,
                          IF it.removed THEN output_dict
                          ELSE IF ~HasKey(output_dict, it.key)
                               THEN Assign(output_dict, data[i].key, it.r.val)
                               ELSE Assign(output_dict, it.key, it.r.val),
                          UiUnion(ui, it.r.ui), inp)
         IN  with_it(render_dict_item_input(st, Len(data), data[i].key, data[i].val,
                 property_key \o KEY_SEPARATOR \o data[i].key, item_schema, inp))

\* the end of _render_dict_items
dict_result(entries, property_key, property_schema, data_dict, cleared) ==
    IF entries.err THEN entries
    ELSE R(entries.st, entries.val, FALSE,
           UiUnion(entries.ui, [NoUi EXCEPT
               !.colls =
                   {Coll(property_key, "dict", property_schema, Len(data_dict.c),
                         Len(cleared.c), Len(entries.val.c),
                         \E i \in 1..Len(cleared.c) :
                             (property_key \o KEY_SEPARATOR \o cleared.c[i].key \o "-remove")
                                 \in entries.ui.remove)},
               !.dicts =
                   {[key |-> property_key, data |-> KeysOf(cleared.c),
                     val |-> entries.val]}]))

\* _render_dict_items; `aliased`: data_dict is the very object held by the store,
\* so the add action's item assignment shows in the store at property_key.
\* (A dict that starts from its schema default would grow that default object
\* instead; that takes an add click in a walk that finds nothing stored, and the
\* dicts with a default explored here are stored by the first walk, which has
\* no click.)
render_dict_items(st, data_dict, aliased, property_key, property_schema, inp) ==
    LET add_disabled == is_add_button_disabled(property_schema, Len(data_dict.c))
        add == Button(inp, "add", InputKey(inp, property_key) \o "-add-item", add_disabled)
        added == IF add
                 THEN PyDict(Assign(data_dict.c, get_next_key(KeysOf(data_dict.c)), PyNone))
                 ELSE data_dict
        clear_disabled == is_clear_button_disabled(property_schema)
        cleared == IF Button(inp, "clear", InputKey(inp, property_key) \o "-clear-items",
                             clear_disabled)
                   THEN EmptyDict ELSE added
        item_schema == IF property_schema.additionalProperties.kind = "schema"
                       THEN property_schema.additionalProperties.s[1]
                       ELSE [ResolvedSchema EXCEPT !.title = "Value"]
        shown == [NoUi EXCEPT
                    !.add = IF add_disabled THEN {}
                            ELSE {[id |-> InputKey(inp, property_key) \o "-add-item",
                                   n |-> Len(data_dict.c)]},
                    !.clear = IF clear_disabled THEN {}
                              ELSE {InputKey(inp, property_key) \o "-clear-items"}]
    IN  IF ~IsDict(cleared) THEN R(st, PyNone, TRUE, shown)
        ELSE dict_result(
                 render_dict_entries(
                     IF add /\ aliased THEN store_value(st, property_key, added).st ELSE st,
                     property_key, item_schema, cleared.c, 1, <<>>, shown, inp),
                 property_key, property_schema, data_dict, cleared)

\* the default value handling of _render_dict_input (use_default) and of
\* _render_additional_properties, then _render_dict_items
dict_input(got, use_default, property_key, property_schema, inp) ==
    IF got.err THEN R(got.st, PyNone, TRUE, NoUi)
    ELSE render_dict_items(got.st,
             IF ~IsNone(got.val) THEN got.val
             ELSE IF use_default /\ ~IsNone(DefaultOf(property_schema))
                  THEN DefaultOf(property_schema)
                  ELSE EmptyDict,
             ~IsNone(got.val), property_key, property_schema, inp)

\* _render_dict_input
render_dict_input(st, property_key, property_schema, inp) ==
    dict_input(get_value(st, property_key), TRUE, property_key, property_schema, inp)

\* _render_additional_properties
render_additional_properties(st, key, property_schema, inp) ==
    dict_input(get_value(st, key), FALSE, key, property_schema, inp)

\* a merge in which the key already present wins
DictUpdate_keep(entries, other) ==
    LET F[i \in 0..Len(other)] ==
            IF i = 0 THEN entries
            ELSE IF HasKey(F[i - 1], other[i].key) THEN F[i - 1]
                 ELSE Assign(F[i - 1], other[i].key, other[i].val)
    IN  F[Len(other)]

\* dict.update(other)
DictUpdate(entries, other) ==
    LET F[i \in 0..Len(other)] ==
            IF i = 0 THEN entries ELSE Assign(F[i - 1], other[i].key, other[i].val)
    IN  F[Len(other)]

\* the property loop of _render_object_properties, from position i (1-based) on
render_object_loop(st, parent_property_key, parent_property_schema, i, output_object, ui, inp) ==
    IF i > Len(parent_property_schema.properties) THEN R(st, PyDict(output_object), FALSE, ui)
    ELSE LET with_r(r) ==
                 IF r.err THEN R(r.st, PyNone, TRUE, UiUnion(ui, r.ui))
                 ELSE render_object_loop(r.st, parent_property_key, parent_property_schema,
                          i + 1,
                          Assign(output_object, parent_property_schema.properties[i].key, r.val),
                          UiUnion(ui, r.ui), inp)
         IN  with_r(render_property(st,
                 parent_property_key \o KEY_SEPARATOR \o parent_property_schema.properties[i].key,
                 parent_property_schema.properties[i].schema, inp))

\* _render_object_properties (called by _render_object_input)
render_object_properties(st, parent_property_key, parent_property_schema, inp) ==
    LET with_props(props) ==
            IF props.err \/ ~HasAdditionalProperties(parent_property_schema) THEN props
            ELSE LET with_more(more) ==
                         IF more.err THEN R(more.st, PyNone, TRUE, UiUnion(props.ui, more.ui))
                         ELSE R(more.st, PyDict(DictUpdate(props.val.c, more.val.c)), FALSE,
                                UiUnion(props.ui, more.ui))
                 IN  with_more(render_additional_properties(props.st,
                         parent_property_key \o KEY_SEPARATOR \o "additionalProperties",
                         parent_property_schema, inp))
    IN  with_props(render_object_loop(st, parent_property_key, parent_property_schema, 1,
                                      <<>>, NoUi, inp))

TextKinds == {"text", "password", "email", "uuid", "uri", "ipv4", "ipv6",
              "file_path", "directory_path"}

\* the handler the match statement of _render_property has for a kind; "" for
\* a kind that falls through
HandlerOf(input_type) ==
    CASE input_type = "enum" -> "_render_enum_input"
      [] input_type \in {"date", "datetime", "time"} -> "_render_datetime_input"
      [] input_type = "boolean" -> "_render_boolean_input"
      [] input_type \in {"integer", "float"} -> "_render_number_input"
      [] input_type \in TextKinds -> "_render_text_input"
      [] input_type \in {"list", "tuple", "set"} -> "_render_list_input"
      [] input_type = "dict" -> "_render_dict_input"
      [] input_type = "object" -> "_render_object_input"
      [] input_type \in {"union", "discriminated_union"} -> "_render_union_input"
      [] input_type = "null" -> "return None"
      [] input_type = "any" -> "_render_any_input"
      [] OTHER -> ""

UnsupportedWarning(property_key, property_schema) ==
    "The type of the following property is currently not supported: "
        \o (IF property_schema.title # "" THEN property_schema.title ELSE property_key)
Did(what, text) == [what |-> what, text |-> text]

\* a dispatch that raises for a kind without handler and warns nobody
dispatch_silent(input_type, property_key, property_schema) ==
    IF HandlerOf(input_type) # ""
    THEN [handler |-> HandlerOf(input_type), events |-> <<>>, err |-> ""]
    ELSE [handler |-> "", err |-> "NotImplementedError",
          events |-> <<Did("raise", "NotImplementedError")>>]

\* the match statement of _render_property and what follows it: the handler
\* called, or the warning and the exception of a kind that has none
dispatch(input_type, property_key, property_schema) ==
    IF HandlerOf(input_type) # ""
    THEN [handler |-> HandlerOf(input_type), events |-> <<>>, err |-> ""]
    ELSE [handler |-> "", err |-> "NotImplementedError",
          events |-> <<Did("warning", UnsupportedWarning(property_key, property_schema)),
                       Did("raise", "NotImplementedError")>>]

\* _render_property: dispatch on the input kind.  The value widgets of the
\* enum, date, boolean, number and union kinds are read as keyed widgets.
render_property(st, property_key, property_schema, inp) ==
    LET input_type == property_to_input_type(property_schema) IN
    CASE dispatch(input_type, property_key, property_schema).err # "" ->
            R(st, PyNone, TRUE,
              [NoUi EXCEPT !.errors = {FieldError(property_key, "unsupported")}])
      [] input_type \in TextKinds -> render_text_input(st, property_key, property_schema, inp)
      [] input_type \in {"list", "tuple", "set"} ->
            render_list_input(st, property_key, property_schema, input_type, inp)
      [] input_type = "dict" -> render_dict_input(st, property_key, property_schema, inp)
      [] input_type = "object" ->
            render_object_properties(st, property_key, property_schema, inp)
      [] input_type = "null" -> R(st, PyNone, FALSE, NoUi)
      [] input_type = "any" -> render_any_input(st, property_key, property_schema, inp)
      [] input_type = "enum" -> render_enum_input(st, property_key, property_schema, inp)
      [] input_type \in {"union", "discriminated_union"} ->
            render_union_input(st, property_key, property_schema, input_type, inp)
      [] OTHER -> render_widget_input(st, property_key, property_schema, inp)

\* -------------------------------------------------------- union input ---
\* to_kebab_case(s): an underscore before every capital but the first
\* character, lower case, spaces to underscores, runs of hyphens and
\* underscores to one hyphen, none at either end
to_kebab_case(s) ==
    LET Snake[i \in 0..Len(s)] ==
            IF i = 0 THEN ""
            ELSE LET c == SubSeq(s, i, i) IN
                 Snake[i - 1] \o (IF i > 1 /\ IsUpper(c) THEN "_" ELSE "")
                              \o (IF c \in {" ", "-"} THEN "_" ELSE ToLower(c))
        snake == Snake[Len(s)]
        Kebab[i \in 0..Len(snake)] ==
            IF i = 0 THEN ""
            ELSE LET c == SubSeq(snake, i, i) IN
                 IF c # "_" THEN Kebab[i - 1] \o c
                 ELSE IF Kebab[i - 1] = "" \/ (\A j \in i..Len(snake) : SubSeq(snake, j, j) = "_")
                         \/ SubSeq(snake, i + 1, i + 1) = "_"
                      THEN Kebab[i - 1]
                      ELSE Kebab[i - 1] \o "-"
    IN  Kebab[Len(snake)]

\* isinstance checks of the jsonschema type keyword, for the values of this model
TypeOk(value, type) ==
    CASE type = "string" -> value.k = "str"
      [] type \in {"integer", "number"} -> value.k = "int"
      [] type = "object" -> value.k = "dict"
      [] type = "array" -> value.k = "list"
      [] type = "null" -> value.k = "none"
      [] type = "boolean" -> FALSE
      [] OTHER -> TRUE
RECURSIVE is_assignable(_, _)
\* is_assignable(value, schema): jsonschema.validate against the dump of the
\* fields the schema sets
is_assignable(value, schema) ==
    /\ TypeOk(value, schema.type)
    /\ schema.const # <<>> => value = schema.const[1]
    /\ schema.enum # <<>> => \E i \in 1..Len(schema.enum) : value = PyStr(schema.enum[i])
    /\ schema.anyOf # <<>> => \E i \in 1..Len(schema.anyOf) : is_assignable(value, schema.anyOf[i])
    /\ schema.oneOf # <<>> =>
           Cardinality({i \in 1..Len(schema.oneOf) : is_assignable(value, schema.oneOf[i])}) = 1
    /\ value.k = "dict" =>
           /\ \A r \in schema.required : HasKey(value.c, r)
           /\ \A i \in 1..Len(schema.properties) :
                  HasKey(value.c, schema.properties[i].key) =>
                      is_assignable(Lookup(value.c, schema.properties[i].key),
                                    schema.properties[i].schema)
    /\ value.k = "list" =>
           /\ schema.minItems # NoneInt => Len(value.c) >= schema.minItems
           /\ schema.maxItems # NoneInt => Len(value.c) <= schema.maxItems
           /\ schema.items # <<>> =>
                  \A i \in 1..Len(value.c) : is_assignable(value.c[i].val, schema.items[1])

\* the option label of a union branch: its title in kebab case, else its type
\* and format; a branch with neither title nor type has no label
UnionLabel(schema) ==
    IF schema.title # "" THEN to_kebab_case(schema.title)
    ELSE IF schema.format # "" THEN schema.type \o " (" \o schema.format \o ")"
    ELSE schema.type

\* the test of one branch against the value: "match", "no", or the exception
\* it raises.  Discriminated: schema.properties[discriminator].const ==
\* value[discriminator]; plain: is_assignable(value, schema)
union_probe(schema, value, discriminator, input_type) ==
    LET at == {i \in 1..Len(schema.properties) : schema.properties[i].key = discriminator}
        literal(prop) == IF prop.const = <<>> THEN PyNone ELSE prop.const[1]
    IN  IF input_type = "discriminated_union"
        THEN IF schema.properties = <<>> THEN "TypeError"
             ELSE IF at = {} THEN "KeyError"
             ELSE IF value.k # "dict" THEN "TypeError"
             ELSE IF ~HasKey(value.c, discriminator) THEN "KeyError"
             ELSE IF literal(schema.properties[CHOOSE i \in at : TRUE].schema)
                        = Lookup(value.c, discriminator) THEN "match"
             ELSE "no"
        ELSE IF is_assignable(value, schema) THEN "match" ELSE "no"

\* next(i for i, schema in enumerate(union_schemas) if ...) over the results
\* of the tests: [err, index], index -1 when there is none
union_first(probes) ==
    LET firsts == {i \in 1..Len(probes) :
                      probes[i] # "no" /\ \A j \in 1..(i - 1) : probes[j] = "no"}
        at(i) == IF probes[i] = "match" THEN [err |-> "", index |-> i - 1]
                 ELSE [err |-> probes[i], index |-> -1]
    IN  IF firsts = {} THEN [err |-> "StopIteration", index |-> -1]
        ELSE at(CHOOSE i \in firsts : TRUE)

\* the keys of schemas_mapping, in the order of their first occurrence
union_options(labels) ==
    LET Options[i \in 0..Len(labels)] ==
            IF i = 0 THEN <<>>
            ELSE IF \A j \in 1..(i - 1) : labels[j] # labels[i]
                 THEN Append(Options[i - 1], labels[i]) ELSE Options[i - 1]
    IN  Options[Len(labels)]

\* schemas_mapping[l]: the last branch with the label
union_mapped(branches, labels, l) ==
    branches[CHOOSE i \in 1..Len(branches) :
                 labels[i] = l /\ \A j \in (i + 1)..Len(branches) : labels[j] # l]

\* the selectbox over the options and the branch it leads to
union_choice(found, branches, labels, options, select_key, inp) ==
    LET index == IF found.index = -1 THEN 0 ELSE found.index
        held == /\ select_key \in DOMAIN inp.widgets
                /\ \E i \in 1..Len(options) : inp.widgets[select_key] = PyStr(options[i])
        visit(chosen) == [err |-> "", index |-> found.index, options |-> options,
                          selected |-> chosen,
                          visited |-> <<union_mapped(branches, labels, chosen)>>]
        fail(err) == [err |-> err, index |-> found.index, options |-> <<>>,
                      selected |-> "", visited |-> <<>>]
    IN  IF found.err # "" THEN fail(found.err)
        ELSE IF \E i \in 1..Len(branches) : branches[i].title = "" /\ branches[i].type = ""
             THEN fail("AttributeError")
        ELSE IF index >= Len(options) THEN fail("StreamlitAPIException")
        ELSE IF held THEN visit(inp.widgets[select_key].a)
        ELSE visit(options[index + 1])

\* the branches after union_schemas[selected_index].default = value
union_branches(union_schemas, found, value) ==
    [i \in 1..Len(union_schemas) |->
        IF i = found.index + 1 THEN [union_schemas[i] EXCEPT !.default = <<value>>]
        ELSE union_schemas[i]]

\* the first part of _render_union_input, up to the choice of the branch to
\* visit: [err, index, options, selected, visited]; index -1 is no index
union_selection(property_key, property_schema, input_type, inp) ==
    LET with_schemas(union_schemas, value) ==
            LET with_found(found) ==
                    LET with_branches(branches) ==
                            LET with_labels(labels) ==
                                    union_choice(found, branches, labels, union_options(labels),
                                        InputKey(inp, property_key) \o "-select-union", inp)
                            IN  with_labels([i \in 1..Len(branches) |-> UnionLabel(branches[i])])
                    IN  with_branches(union_branches(union_schemas, found, value))
            IN  with_found(IF IsNone(value) THEN [err |-> "", index |-> -1]
                           ELSE union_first([i \in 1..Len(union_schemas) |->
                                    union_probe(union_schemas[i], value,
                                                property_schema.discriminator, input_type)]))
    IN  with_schemas(IF property_schema.anyOf # <<>> THEN property_schema.anyOf
                     ELSE property_schema.oneOf, DefaultOf(property_schema))

\* _render_union_input: the selectbox of the branches, then the visit of the
\* selected branch under the key of the union
render_union_input(st, property_key, property_schema, input_type, inp) ==
    LET with_sel(sel) ==
            IF sel.err # "" THEN R(st, PyNone, TRUE, NoUi)
            ELSE LET shown == [NoUi EXCEPT !.input =
                                  {InputKey(inp, property_key) \o "-select-union"}]
                     with_r(r) == R(r.st, r.val, r.err, UiUnion(shown, r.ui))
                 IN  with_r(render_property(st, property_key, sel.visited[1], inp))
    IN  with_sel(union_selection(property_key, property_schema, input_type, inp))

\* ---------------------------------------------------------- the walk ---
\* an unpack_additional_properties that merges at the top level only
unpack_additional_properties_shallow(data, additional_properties_key) ==
    LET Adds(result, adds) ==
            LET G[j \in 0..Len(adds)] ==
                    IF j = 0 THEN result ELSE Assign(G[j - 1], adds[j].key, adds[j].val)
            IN  G[Len(adds)]
        F[i \in 0..Len(data)] ==
            IF i = 0 THEN <<>>
            ELSE IF data[i].key = additional_properties_key /\ IsDict(data[i].val)
                 THEN Adds(F[i - 1], data[i].val.c)
                 ELSE Assign(F[i - 1], data[i].key, data[i].val)
    IN  F[Len(data)]

RECURSIVE unpack_additional_properties(_, _)
\* unpack_additional_properties(data, additional_properties_key), on dict entries
unpack_additional_properties(data, additional_properties_key) ==
    LET U(v) == IF IsDict(v)
                THEN PyDict(unpack_additional_properties(v.c, additional_properties_key))
                ELSE v
        Adds(result, adds) ==
            LET G[j \in 0..Len(adds)] ==
                    IF j = 0 THEN result ELSE Assign(G[j - 1], adds[j].key, U(adds[j].val))
            IN  G[Len(adds)]
        F[i \in 0..Len(data)] ==
            IF i = 0 THEN <<>>
            ELSE IF data[i].key = additional_properties_key /\ IsDict(data[i].val)
                 THEN Adds(F[i - 1], data[i].val.c)
                 ELSE Assign(F[i - 1], data[i].key, U(data[i].val))
    IN  F[Len(data)]

Event(ev, key, val) == [ev |-> ev, key |-> key, val |-> val]
W(st, val, err, ui, log) == [st |-> st, val |-> val, err |-> err, ui |-> ui, log |-> log]

RECURSIVE render_schema_loop(_, _, _, _, _, _)
\* the property loop of render_schema, from position i (1-based) on
render_schema_loop(st, schema, i, ui, log, inp) ==
    IF i > Len(schema.properties) THEN W(st, PyNone, FALSE, ui, log)
    ELSE LET with_r(r) ==
                 IF r.err THEN W(r.st, PyNone, TRUE, UiUnion(ui, r.ui), log)
                 ELSE LET with_stored(stored) ==
                              IF stored.err
                              THEN W(stored.st, PyNone, TRUE, UiUnion(ui, r.ui),
                                     Append(log, Event("visit", schema.properties[i].key, r.val)))
                              ELSE render_schema_loop(stored.st, schema, i + 1,
                                       UiUnion(ui, r.ui),
                                       log \o <<Event("visit", schema.properties[i].key, r.val),
                                                Event("store", schema.properties[i].key, r.val)>>,
                                       inp)
                      IN  with_stored(store_value(r.st, schema.properties[i].key, r.val))
         IN  with_r(render_property(st, schema.properties[i].key, schema.properties[i].schema, inp))

\* the end of render_schema: the additional properties region and the return
schema_result(props, schema, inp) ==
    IF props.err THEN props
    ELSE IF ~HasAdditionalProperties(schema)
    THEN W(props.st, PyDict(unpack_additional_properties(props.st.c, ADDITIONAL_PROPERTIES_KEY)),
           FALSE, props.ui, props.log)
    ELSE LET with_more(more) ==
                 IF more.err THEN W(more.st, PyNone, TRUE, UiUnion(props.ui, more.ui), props.log)
                 ELSE LET with_stored(stored) ==
                              IF stored.err
                              THEN W(stored.st, PyNone, TRUE, UiUnion(props.ui, more.ui),
                                     props.log)
                              ELSE W(stored.st,
                                     PyDict(unpack_additional_properties(stored.st.c,
                                                ADDITIONAL_PROPERTIES_KEY)),
                                     FALSE, UiUnion(props.ui, more.ui),
                                     Append(props.log, Event("store", ADDITIONAL_PROPERTIES_KEY,
                                                             more.val)))
                      IN  with_stored(store_value(more.st, ADDITIONAL_PROPERTIES_KEY, more.val))
         IN  with_more(render_additional_properties(props.st, ADDITIONAL_PROPERTIES_KEY, schema, inp))

\* SettingsWizardBackend.render_schema
render_schema(st, schema, inp) ==
    IF schema.properties = <<>> THEN W(st, EmptyDict, FALSE, NoUi, <<>>)
    ELSE schema_result(render_schema_loop(st, schema, 1, NoUi, <<>>, inp), schema, inp)

\* ------------------------------------------------- schemas explored ---
Str == [ResolvedSchema EXCEPT !.type = "string"]
ArrayOf(item) == [ResolvedSchema EXCEPT !.type = "array", !.items = <<item>>]
ObjectOf(props) == [ResolvedSchema EXCEPT !.properties = props]
DictOf(item) == [ResolvedSchema EXCEPT !.additionalProperties = AdditionalSchema(item)]

SchemaTable ==
    << \* 1: the end-to-end example: name, and tags with minItems 1
       [ObjectOf(<<Prop("name", Str),
                   Prop("tags", [ArrayOf(Str) EXCEPT !.minItems = 1])>>)
            EXCEPT !.required = {"name"}],
       \* 2: a list of objects that hold a list
       ObjectOf(<<Prop("tags", [ArrayOf(ObjectOf(<<Prop("sub", ArrayOf(Str))>>))
                                   EXCEPT !.minItems = 1])>>),
       \* 3: a list of lists
       ObjectOf(<<Prop("m", [ArrayOf(ArrayOf(Str)) EXCEPT !.minItems = 1])>>),
       \* 4: a read-only list, and a bounded list with a default
       ObjectOf(<<Prop("r", [ArrayOf(Str) EXCEPT !.readOnly = TRUE, !.minItems = 2,
                                                  !.maxItems = 2]),
                   Prop("b", [ArrayOf(Str) EXCEPT !.maxItems = 2,
                                  !.default = <<PyList(<<PyStr("x")>>)>>])>>),
       \* 5: a bounded dict, and a read-only dict
       ObjectOf(<<Prop("d", [DictOf(Str) EXCEPT !.maxItems = 2]),
                   Prop("q", [DictOf(Str) EXCEPT !.readOnly = TRUE])>>),
       \* 6: no declared property, additional properties only
       [ResolvedSchema EXCEPT !.additionalProperties = AdditionalSchema(Str)],
       \* 7: a declared property and free-form additional properties
       [ObjectOf(<<Prop("a", Str)>>) EXCEPT !.additionalProperties = AdditionalBool(TRUE)],
       \* 8: neither properties nor additional properties
       ResolvedSchema,
       \* 9: a property key that contains the separator
       ObjectOf(<<Prop("a.b", Str), Prop("c", Str)>>),
       \* 10: a list inside an object, a tuple and a set
       ObjectOf(<<Prop("o", ObjectOf(<<Prop("l", ArrayOf(Str))>>)),
                   Prop("t", [ResolvedSchema EXCEPT !.type = "array",
                                  !.prefixItems = <<Str, Str>>]),
                   Prop("s", [ArrayOf(Str) EXCEPT !.uniqueItems = TRUE])>>),
       \* 11: a dict of lists
       ObjectOf(<<Prop("d", DictOf(ArrayOf(Str)))>>),
       \* 12: a declared property named as the first generated entry key, next
       \* to additional properties, at the top level and in a nested object
       [ObjectOf(<<Prop("new_item_0", [Str EXCEPT !.default = <<PyStr("x")>>]),
                   Prop("o", [ObjectOf(<<Prop("new_item_0",
                                              [Str EXCEPT !.default = <<PyStr("x")>>])>>)
                                 EXCEPT !.additionalProperties = AdditionalSchema(Str)])>>)
            EXCEPT !.additionalProperties = AdditionalSchema(Str)],
       \* 13: a dict that starts from a default of two entries
       ObjectOf(<<Prop("e", [DictOf(Str) EXCEPT !.default =
                                 <<PyDict(<<Entry("k", PyStr("x")),
                                            Entry("j", PyStr("y"))>>)>>])>>),
       \* 14: a nested object with a declared property and additional
       \* properties, below a top level with additional properties
       [ObjectOf(<<Prop("o", [ObjectOf(<<Prop("a", Str)>>)
                                 EXCEPT !.additionalProperties = AdditionalSchema(Str)])>>)
            EXCEPT !.additionalProperties = AdditionalSchema(Str)],
       \* 15: a tuple of one position
       ObjectOf(<<Prop("t", [ResolvedSchema EXCEPT !.type = "array",
                                  !.prefixItems = <<Str>>])>>),
       \* 16: an email, a set that starts with two items, a free-form input
       \* and a text after them
       ObjectOf(<<Prop("m", [Str EXCEPT !.format = "email"]),
                   Prop("s", [ArrayOf(Str) EXCEPT !.uniqueItems = TRUE, !.minItems = 2]),
                   Prop("j", ResolvedSchema),
                   Prop("z", Str)>>) >>

\* what the user can type into a value input and into a key input
InputValues ==
    {PyStr("x"), PyStr("y"), PyStr("a@b.co"),
     PyStr("{\"" \o ADDITIONAL_PROPERTIES_KEY \o "\":\"x\"}")}
KeyValues == {PyStr("k"), PyStr("new_item_0"), PyStr(ADDITIONAL_PROPERTIES_KEY)}
\* the key paths the store is called with directly
Paths == {"tags", "tags.0", "tags.0.sub", "o.x", "o.x.y", "name"}
StoreValues == {PyStr("x"), PyList(<<PyStr("x")>>), EmptyDict}

\* -------------------------------------------------------- the machine ---
\* schemaId .. direct: one wizard and its store.  session, wizards, completion:
\* the host's session state and the wizards constructed over it.  probe: the
\* schema node handed to the classifier.  call: a call of one of the pure
\* functions, its arguments and what it gave.
VARIABLES schemaId, state, widgets, ret, ui, log, op, walks, direct,
          session, wizards, completion, probe, call
vars == <<schemaId, state, widgets, ret, ui, log, op, walks, direct,
          session, wizards, completion, probe, call>>
rest == <<session, wizards, completion, probe, call>>

Schema == SchemaTable[schemaId]
NoWidgets == [k \in {} |-> PyNone]
\* what a walk reads besides the store and the schema: the button pressed, the
\* values held by the keyed widgets, and self.key
Inp(key, click, w) == [key |-> key, click |-> click, widgets |-> w]
NoSession == [k \in {} |-> EmptyDict]
NoCompletion == [submitted |-> FALSE, calls |-> <<>>, out |-> PyNone]
NoProbe == [node |-> <<>>, kind |-> "", complex |-> FALSE]
\* no function called yet
NoCall == [fn |-> "", args |-> <<>>, out |-> <<>>]
Op(name, act, id, val, pre) ==
    [name |-> name, act |-> act, id |-> id, val |-> val, pre |-> pre]

\* the wizard after construction: an empty store, nothing rendered yet
Init ==
    /\ schemaId \in 1..Len(SchemaTable)
    /\ state = EmptyDict
    /\ widgets = NoWidgets
    /\ ret = [err |-> FALSE, val |-> PyNone]
    /\ ui = NoUi
    /\ log = <<>>
    /\ op = Op("init", "", "", PyNone, EmptyDict)
    /\ walks = 0
    /\ direct = 0
    /\ session = NoSession
    /\ wizards = NoSession
    /\ completion = NoCompletion
    /\ probe = NoProbe
    /\ call = NoCall

\* the effect of one rerun whose walk gave r; the host keeps the entered value
\* of a widget only while the widget is rendered
Walked(r, act, id, val, w) ==
    /\ state' = r.st
    /\ ret' = [err |-> r.err, val |-> IF r.err THEN PyNone ELSE r.val]
    /\ ui' = r.ui
    /\ log' = r.log
    /\ widgets' = [k \in DOMAIN w \cap (r.ui.input \cup r.ui.keyin) |-> w[k]]
    /\ op' = Op("walk", act, id, val, state)
    /\ walks' = walks + 1
    /\ UNCHANGED <<schemaId, direct, rest>>

\* one rerun of the script: render_schema with the user's interaction applied
Walk(act, id, val, click, w) ==
    /\ walks < MaxWalks
    /\ direct = 0
    /\ Walked(render_schema(state, Schema, Inp(WizardKey, click, w)), act, id, val, w)

SetWidget(k, v) == [x \in DOMAIN widgets \cup {k} |-> IF x = k THEN v ELSE widgets[x]]

Rerun == Walk("none", "", PyNone, NoClick, widgets)
ClickAdd ==
    \E b \in ui.add : b.n < MaxLen /\ Walk("add", b.id, PyNone, <<"add", b.id>>, widgets)
ClickClear == \E b \in ui.clear : Walk("clear", b, PyNone, <<"clear", b>>, widgets)
ClickRemove == \E b \in ui.remove : Walk("remove", b, PyNone, <<"remove", b>>, widgets)
EditInput ==
    \E k \in ui.input, v \in InputValues :
        Walk("edit", k, v, NoClick, SetWidget(k, v))
EditKey ==
    \E k \in ui.keyin, v \in KeyValues :
        Walk("key", k, v, NoClick, SetWidget(k, v))

\* a direct call of _get_value(p)
GetValueCall ==
    \E p \in Paths :
        LET r == get_value(state, p) IN
        /\ walks > 0
        /\ direct < MaxDirect
        /\ state' = r.st
        /\ ret' = [err |-> r.err, val |-> r.val]
        /\ op' = Op("get", "", p, PyNone, state)
        /\ direct' = direct + 1
        /\ UNCHANGED <<schemaId, widgets, ui, log, walks, rest>>

\* a direct call of _store_value(p, v)
StoreValueCall ==
    \E p \in Paths, v \in StoreValues :
        LET r == store_value(state, p, v) IN
        /\ walks > 0
        /\ direct < MaxDirect
        /\ state' = r.st
        /\ ret' = [err |-> r.err, val |-> PyNone]
        /\ op' = Op("store", "", p, v, state)
        /\ direct' = direct + 1
        /\ UNCHANGED <<schemaId, widgets, ui, log, walks, rest>>

Next == Rerun \/ ClickAdd \/ ClickClear \/ ClickRemove \/ EditInput \/ EditKey
Spec == Init /\ [][Next]_vars

\* direct calls are explored on the schemas that declare a key of Paths
StoreSchemas == {1, 2, 10, 12}
StoreInit == Init /\ schemaId \in StoreSchemas
NextStore == Rerun \/ ClickAdd \/ GetValueCall \/ StoreValueCall
StoreSpec == StoreInit /\ [][NextStore]_vars

\* ------------------------------------------------ schema resolution ---
\* obj["$ref"].split("/")[-1]
RECURSIVE LastSegment(_, _, _)
LastSegment(s, i, cur) ==
    IF i > Len(s) THEN cur
    ELSE IF SubSeq(s, i, i) = "/" THEN LastSegment(s, i + 1, "")
         ELSE LastSegment(s, i + 1, cur \o SubSeq(s, i, i))

\* KeyError(f"Reference '{ref_key}' not found in ref_map.")
KeyErrorOf(ref_key) == "KeyError: Reference '" \o ref_key \o "' not found in ref_map."

RECURSIVE resolve(_, _, _)
\* _resolve of resolve_refs at call depth `depth`: [val, err], err one of "",
\* the KeyError of a missing reference, "RecursionError"; the interpreter
\* gives up beyond RecursionLimit
resolve(obj, ref_map, depth) ==
    LET Each[i \in 0..Len(obj.c)] ==
            IF i = 0 THEN [c |-> <<>>, err |-> ""]
            ELSE IF Each[i - 1].err # "" THEN Each[i - 1]
            ELSE LET with_r(r) ==
                         [c |-> Append(Each[i - 1].c, Entry(obj.c[i].key, r.val)),
                          err |-> r.err]
                 IN  with_r(resolve(obj.c[i].val, ref_map, depth + 1))
        ref_key == LastSegment(Lookup(obj.c, "$ref").a, 1, "")
    IN  IF depth > RecursionLimit THEN [val |-> PyNone, err |-> "RecursionError"]
        ELSE IF IsDict(obj) /\ HasKey(obj.c, "$ref")
        THEN IF HasKey(ref_map.c, ref_key)
             THEN resolve(Lookup(ref_map.c, ref_key), ref_map, depth + 1)
             ELSE [val |-> PyNone, err |-> KeyErrorOf(ref_key)]
        ELSE IF IsDict(obj) \/ obj.k = "list"
        THEN [val |-> Val(obj.k, "", Each[Len(obj.c)].c), err |-> Each[Len(obj.c)].err]
        ELSE [val |-> obj, err |-> ""]

RECURSIVE model_validate(_)
\* ResolvedSettingsSchema.model_validate, for the fields the raw schemas use
model_validate(d) ==
    LET field(name) == Lookup(d.c, name) IN
    [ResolvedSchema EXCEPT
        !.type = IF HasKey(d.c, "type") THEN field("type").a ELSE @,
        !.title = IF HasKey(d.c, "title") THEN field("title").a ELSE @,
        !.properties =
            IF HasKey(d.c, "properties")
            THEN [i \in 1..Len(field("properties").c) |->
                     Prop(field("properties").c[i].key,
                          model_validate(field("properties").c[i].val))]
            ELSE @,
        !.items = IF HasKey(d.c, "items") THEN <<model_validate(field("items"))>> ELSE @,
        !.additionalProperties =
            IF HasKey(d.c, "additionalProperties")
            THEN AdditionalSchema(model_validate(field("additionalProperties")))
            ELSE @,
        !.default = IF HasKey(d.c, "default") THEN <<field("default")>> ELSE @]

\* what a schema object is for the constructor: its dump (model_dump), its
\* stored reference map (<<>> is None), and whether it is already a
\* ResolvedSettingsSchema
Raw(dump, ref_map, resolved) == [dump |-> dump, ref_map |-> ref_map, resolved |-> resolved]

\* what resolve_refs leaves behind: the ResolvedSettingsSchema (<<>> when it
\* raised), the resolved tree it was validated from, the exception raised ("" is
\* none), and the schema object and the ref_map argument after the call
Resolved(schema, tree, err, self, ref_map) ==
    [schema |-> schema, tree |-> tree, err |-> err, self |-> self, ref_map |-> ref_map]

NoMapError == "ValueError: No reference map provided for resolving references."
CircularError == "ValueError: Circular reference detected in schema resolution."

\* a resolve_refs that validates the dump as it stands
resolve_tree_unresolved(raw, ref_map, used) ==
    Resolved(<<model_validate(raw.dump)>>, <<raw.dump>>, "", raw, ref_map)

\* a resolve_refs that reports every failure of _resolve as a circular reference
resolve_tree_all_circular(raw, ref_map, used) ==
    LET with_r(r) ==
            IF r.err # "" THEN Resolved(<<>>, <<>>, CircularError, raw, ref_map)
            ELSE Resolved(<<model_validate(r.val)>>, <<r.val>>, "", raw, ref_map)
    IN  with_r(resolve(raw.dump, used, 1))

\* a resolve_refs that resolves the schema object in place
resolve_tree_in_place(raw, ref_map, used) ==
    LET with_r(r) ==
            IF r.err = "RecursionError" THEN Resolved(<<>>, <<>>, CircularError, raw, ref_map)
            ELSE IF r.err # "" THEN Resolved(<<>>, <<>>, r.err, raw, ref_map)
            ELSE Resolved(<<model_validate(r.val)>>, <<r.val>>, "",
                          [raw EXCEPT !.dump = r.val], ref_map)
    IN  with_r(resolve(raw.dump, used, 1))

\* resolve_refs from the model_dump on, with the reference map `used`
resolve_tree(raw, ref_map, used) ==
    LET with_r(r) ==
            IF r.err = "RecursionError" THEN Resolved(<<>>, <<>>, CircularError, raw, ref_map)
            ELSE IF r.err # "" THEN Resolved(<<>>, <<>>, r.err, raw, ref_map)
            ELSE Resolved(<<model_validate(r.val)>>, <<r.val>>, "", raw, ref_map)
    IN  with_r(resolve(raw.dump, used, 1))

\* a resolve_refs that prefers the stored reference map to the passed one
resolve_refs_map_stored_first(raw, ref_map) ==
    LET used == IF raw.ref_map # <<>> THEN raw.ref_map ELSE ref_map
    IN  IF used = <<>> THEN Resolved(<<>>, <<>>, NoMapError, raw, ref_map)
        ELSE resolve_tree(raw, ref_map, used[1])

\* SettingsSchema.resolve_refs(ref_map); ref_map <<>> is None
resolve_refs_map(raw, ref_map) ==
    LET used == IF ref_map = <<>> THEN raw.ref_map ELSE ref_map
    IN  IF used = <<>> THEN Resolved(<<>>, <<>>, NoMapError, raw, ref_map)
        ELSE resolve_tree(raw, ref_map, used[1])

\* SettingsSchema.resolve_refs() with no argument: [schema, err]
resolve_refs(raw) ==
    LET with_r(r) == [schema |-> r.schema, err |-> r.err]
    IN  with_r(resolve_refs_map(raw, <<>>))

\* SettingsSchema.from_spec: the schema dumps what the specification set; the
\* definitions block is part of the dump when the schema model keeps the
\* fields it does not declare (keeps_extra), and the stored reference map is
\* the block when the specification has one
from_spec(spec, keeps_extra) ==
    LET declared(e) == e.key # "$defs" IN
    Raw(IF keeps_extra THEN spec ELSE PyDict(SelectSeq(spec.c, declared)),
        IF HasKey(spec.c, "$defs") THEN <<Lookup(spec.c, "$defs")>> ELSE <<>>,
        FALSE)

\* ------------------------------------------------------ construction ---
ClassKey(raw) == IF raw.resolved THEN "resolved-settings-schema" ELSE "settings-schema"
\* self.key = key or schema.title or to_kebab_case(schema.__class__.__name__)
IdentityKey(key, raw) ==
    IF key # "" THEN key
    ELSE IF HasKey(raw.dump.c, "title") /\ Lookup(raw.dump.c, "title").a # ""
         THEN Lookup(raw.dump.c, "title").a
         ELSE ClassKey(raw)

\* a state key that does not depend on the identity key
StateKey_shared(key) == "data"

\* self._state_key
StateKey(key) == key \o "-data"
\* st.session_state.setdefault(k, v)
SetDefault(sess, k, v) ==
    IF k \in DOMAIN sess THEN sess
    ELSE [x \in DOMAIN sess \cup {k} |-> IF x = k THEN v ELSE sess[x]]

\* StreamlitSettingsWizard._init_state
init_state(sess, key) ==
    SetDefault(SetDefault(sess, "run_id", PyStr(RunId)), StateKey(key), EmptyDict)

\* a constructor that creates the state store before it resolves the schema
construct_state_first(sess, key, raw) ==
    LET with_r(r) ==
            [session |-> init_state(sess, IdentityKey(key, raw)), err |-> r.err,
             wizard |-> IF r.err # "" THEN <<>>
                        ELSE <<[key |-> IdentityKey(key, raw), schema |-> r.schema[1]]>>]
    IN  with_r(IF raw.resolved THEN [schema |-> <<model_validate(raw.dump)>>, err |-> ""]
               ELSE resolve_refs(raw))

\* StreamlitSettingsWizard.__init__ and SettingsWizardBackend.__init__:
\* [session, err, wizard], wizard <<>> when the constructor raised
construct(sess, key, raw) ==
    LET with_r(r) ==
            IF r.err # "" THEN [session |-> sess, err |-> r.err, wizard |-> <<>>]
            ELSE [session |-> init_state(sess, IdentityKey(key, raw)), err |-> "",
                  wizard |-> <<[key |-> IdentityKey(key, raw), schema |-> r.schema[1]]>>]
    IN  with_r(IF raw.resolved THEN [schema |-> <<model_validate(raw.dump)>>, err |-> ""]
               ELSE resolve_refs(raw))

\* ------------------------------------------------------ render_wizard ---
\* the completion function: the default `lambda x, *args, **kwargs: x`, or one
\* of the caller's that returns (x, *args)
SubmitFn(fn, data, args) ==
    IF fn = "default" THEN data ELSE PySeq("tuple", <<data>> \o args)

\* a render_wizard that calls the completion function in every cycle
render_wizard_always(st, schema, inp, fn, args) ==
    LET with_w(w) ==
            IF w.err THEN [walk |-> w, calls |-> <<>>, out |-> PyNone]
            ELSE [walk |-> w, calls |-> <<[data |-> w.val, args |-> args]>>,
                  out |-> SubmitFn(fn, w.val, args)]
    IN  with_w(render_schema(st, schema, inp))

\* StreamlitSettingsWizard.render_wizard: [walk: the result of render_schema,
\* calls: the calls of submit_fn, out: the value returned]
render_wizard(st, schema, inp, fn, args) ==
    LET with_w(w) ==
            IF w.err THEN [walk |-> w, calls |-> <<>>, out |-> PyNone]
            ELSE IF Button(inp, "submit", inp.key, FALSE)
            THEN [walk |-> w, calls |-> <<[data |-> w.val, args |-> args]>>,
                  out |-> SubmitFn(fn, w.val, args)]
            ELSE [walk |-> w, calls |-> <<>>, out |-> PyNone]
    IN  with_w(render_schema(st, schema, inp))

\* ----------------------------------------- wizards over one session ---
RawStr == PyDict(<<Entry("type", PyStr("string"))>>)
RawArray(items) == PyDict(<<Entry("type", PyStr("array")), Entry("items", items)>>)
RawObject(props) ==
    PyDict(<<Entry("type", PyStr("object")), Entry("properties", PyDict(props))>>)
Ref(name) == PyDict(<<Entry("$ref", PyStr("#/$defs/" \o name))>>)

RawTable ==
    << \* 1: no reference, an empty reference map
       Raw(RawObject(<<Entry("name", RawStr), Entry("tags", RawArray(RawStr))>>),
           <<EmptyDict>>, FALSE),
       \* 2: titled "w"; a reference that the map defines
       Raw(PyDict(<<Entry("title", PyStr("w")), Entry("type", PyStr("object")),
                    Entry("properties", PyDict(<<Entry("tags", Ref("Tags"))>>))>>),
           <<PyDict(<<Entry("Tags", RawArray(RawStr))>>)>>, FALSE),
       \* 3: a reference that the map does not define
       Raw(RawObject(<<Entry("a", Ref("B"))>>), <<PyDict(<<Entry("A", RawStr)>>)>>, FALSE),
       \* 4: a definition that refers to itself
       Raw(RawObject(<<Entry("n", Ref("N"))>>),
           <<PyDict(<<Entry("N", RawObject(<<Entry("n", Ref("N"))>>))>>)>>, FALSE),
       \* 5: no reference map
       Raw(RawObject(<<Entry("a", RawStr)>>), <<>>, FALSE),
       \* 6: a ResolvedSettingsSchema
       Raw(RawObject(<<Entry("tags", RawArray(RawStr))>>), <<>>, TRUE) >>

Slots == 1..2
\* the `key` argument of the constructor; "" is None
KeyArgs == {"w", "v", ""}
SessionPaths == {"tags", "tags.0"}
SessionValues == {PyList(<<PyStr("x")>>)}
SubmitFns == {"default", "caller"}
SubmitArgs == {<<PyStr("x")>>}

SessionOp(name, who, act, id, val, pre) ==
    [name |-> name, who |-> who, act |-> act, id |-> id, val |-> val, pre |-> pre]
\* self.state of the wizard in a slot
StoreOf(sess, slot) == sess[StateKey(wizards[slot].key)]

\* nothing constructed yet
SessionInit == Init /\ schemaId = 1

\* StreamlitSettingsWizard(schema, key=key)
Construct ==
    \E slot \in Slots \ DOMAIN wizards, key \in KeyArgs, i \in 1..Len(RawTable) :
        LET built(c) ==
                /\ \A x \in Slots : x < slot => x \in DOMAIN wizards
                /\ session' = c.session
                /\ wizards' = IF c.wizard = <<>> THEN wizards
                               ELSE [x \in DOMAIN wizards \cup {slot} |->
                                        IF x = slot THEN c.wizard[1] ELSE wizards[x]]
                /\ ret' = [err |-> c.err # "", val |-> PyStr(c.err)]
                /\ op' = SessionOp("construct", slot, key, i, PyNone, session)
                /\ UNCHANGED <<schemaId, state, widgets, ui, log, walks, direct,
                               completion, probe, call>>
        IN  built(construct(session, key, RawTable[i]))

\* the effect of a walk w of the wizard in a slot
SessionWalked(slot, name, w, act, id, val, widg) ==
    /\ session' = [session EXCEPT ![StateKey(wizards[slot].key)] = w.st]
    /\ ret' = [err |-> w.err, val |-> IF w.err THEN PyNone ELSE w.val]
    /\ ui' = w.ui
    /\ log' = w.log
    /\ widgets' = [k \in DOMAIN widg \cap (w.ui.input \cup w.ui.keyin) |-> widg[k]]
    /\ op' = SessionOp(name, slot, act, id, val, session)
    /\ walks' = walks + 1
    /\ UNCHANGED <<schemaId, state, wizards, direct, probe, call>>

\* one render_schema() of the wizard in a slot
SessionWalk(slot, act, id, val, click, widg) ==
    /\ walks < MaxSessionWalks
    /\ direct = 0
    /\ SessionWalked(slot, "walk",
                     render_schema(StoreOf(session, slot), wizards[slot].schema,
                                   Inp(wizards[slot].key, click, widg)),
                     act, id, val, widg)
    /\ completion' = NoCompletion

SessionRerun ==
    \E slot \in DOMAIN wizards : SessionWalk(slot, "none", "", PyNone, NoClick, widgets)
SessionClickAdd ==
    \E slot \in DOMAIN wizards, b \in ui.add :
        b.n < MaxLen /\ SessionWalk(slot, "add", b.id, PyNone, <<"add", b.id>>, widgets)

\* one render_wizard(submit_fn=fn, *args) of the wizard in a slot
RenderWizard ==
    \E slot \in DOMAIN wizards, submit \in BOOLEAN, fn \in SubmitFns, args \in SubmitArgs :
        LET cycle(c) ==
                /\ SessionWalked(slot, "wizard", c.walk, IF submit THEN "submit" ELSE "none",
                                 fn, PySeq("tuple", args), widgets)
                /\ completion' = [submitted |-> submit, calls |-> c.calls, out |-> c.out]
        IN  /\ walks < MaxSessionWalks
            /\ direct = 0
            /\ cycle(render_wizard(StoreOf(session, slot), wizards[slot].schema,
                                   Inp(wizards[slot].key,
                                       IF submit THEN <<"submit", wizards[slot].key>>
                                       ELSE NoClick,
                                       widgets),
                                   fn, args))

\* a direct _store_value(p, v) on the wizard in a slot; a session is followed
\* up to its first direct call
SessionStoreValue ==
    \E slot \in DOMAIN wizards, p \in SessionPaths, v \in SessionValues :
        LET r == store_value(StoreOf(session, slot), p, v) IN
        /\ direct = 0
        /\ session' = [session EXCEPT ![StateKey(wizards[slot].key)] = r.st]
        /\ ret' = [err |-> r.err, val |-> PyNone]
        /\ op' = SessionOp("store", slot, "", p, v, session)
        /\ direct' = direct + 1
        /\ UNCHANGED <<schemaId, state, widgets, ui, log, walks, wizards, completion, probe, call>>

\* a direct _get_value(p) on the wizard in a slot
SessionGetValue ==
    \E slot \in DOMAIN wizards, p \in SessionPaths :
        LET r == get_value(StoreOf(session, slot), p) IN
        /\ direct = 0
        /\ session' = [session EXCEPT ![StateKey(wizards[slot].key)] = r.st]
        /\ ret' = [err |-> r.err, val |-> r.val]
        /\ op' = SessionOp("get", slot, "", p, PyNone, session)
        /\ direct' = direct + 1
        /\ UNCHANGED <<schemaId, state, widgets, ui, log, walks, wizards, completion, probe, call>>

SessionNext ==
    \/ Construct \/ SessionRerun \/ SessionClickAdd \/ RenderWizard
    \/ SessionStoreValue \/ SessionGetValue
SessionSpec == SessionInit /\ [][SessionNext]_vars

\* ---------------------------------------------------- the classifier ---
\* the declared types ("" is a node without type; "other": any other value)
Types == {"string", "number", "integer", "boolean", "array", "object", "null", "", "other"}
Formats ==
    {"", "email", "password", "uri", "uuid", "ipv4", "ipv6", "file_path",
     "directory_path", "file-path", "directory-path", "date", "time", "date-time",
     "duration", "binary"}
\* the nodes classified: every combination of the fields the classifier reads
\* (<<>> stands for an absent and for an empty list alike: both are falsy)
Nodes ==
    {[ResolvedSchema EXCEPT
         !.type = "string", !.format = f, !.enum = e, !.discriminator = d, !.oneOf = o] :
       f \in Formats, e \in {<<>>, <<"a">>}, d \in {"", "kind"}, o \in {<<>>, <<Str>>}}
    \cup
    {[ResolvedSchema EXCEPT
         !.type = t, !.enum = e, !.discriminator = d, !.anyOf = a, !.oneOf = o,
         !.prefixItems = p, !.uniqueItems = u, !.properties = pr,
         !.additionalProperties = ap] :
       t \in Types, e \in {<<>>, <<"a">>}, d \in {"", "kind"},
       a \in {<<>>, <<Str>>}, o \in {<<>>, <<Str>>}, p \in {<<>>, <<Str>>},
       u \in BOOLEAN, pr \in {<<>>, <<Prop("a", Str)>>},
       ap \in {NoAdditional, AdditionalBool(FALSE), AdditionalBool(TRUE),
               AdditionalSchema(Str)}}

\* a node waits to be classified
ClassifyInit ==
    /\ schemaId = 1
    /\ state = EmptyDict
    /\ widgets = NoWidgets
    /\ ret = [err |-> FALSE, val |-> PyNone]
    /\ ui = NoUi
    /\ log = <<>>
    /\ op = Op("init", "", "", PyNone, EmptyDict)
    /\ walks = 0
    /\ direct = 0
    /\ session = NoSession
    /\ wizards = NoSession
    /\ completion = NoCompletion
    /\ call = NoCall
    /\ probe \in {[node |-> <<n>>, kind |-> "", complex |-> FALSE] : n \in Nodes}

\* kind = property_to_input_type(node); kind.is_complex
Classify ==
    /\ probe.node # <<>> /\ probe.kind = ""
    /\ probe' = [node |-> probe.node, kind |-> property_to_input_type(probe.node[1]),
                 complex |-> is_complex(property_to_input_type(probe.node[1]))]
    /\ UNCHANGED <<schemaId, state, widgets, ret, ui, log, op, walks, direct,
                   session, wizards, completion, call>>

\* member.is_complex for a member of InputType
IsComplexOf ==
    \E kind \in InputType :
        /\ probe.kind = ""
        /\ probe' = [node |-> <<>>, kind |-> kind, complex |-> is_complex(kind)]
        /\ UNCHANGED <<schemaId, state, widgets, ret, ui, log, op, walks, direct,
                       session, wizards, completion, call>>

ClassifyNext == Classify \/ IsComplexOf
ClassifySpec == ClassifyInit /\ [][ClassifyNext]_vars

\* ------------------------------------------- resolving specifications ---
\* a chain of definitions D1 -> D2 -> ... -> Dn, the last one a string schema:
\* acyclic, and one link longer than the interpreter's recursion limit allows
ChainLen == RecursionLimit + 1
ChainName(i) == "D" \o ToString(i)
Chain ==
    [i \in 1..ChainLen |->
        Entry(ChainName(i), IF i = ChainLen THEN RawStr ELSE Ref(ChainName(i + 1)))]

\* the bodies of the specifications, without their definitions block
SpecBodies ==
    { RawObject(<<Entry("a", RawStr)>>),
      RawObject(<<Entry("a", Ref("A"))>>),
      RawObject(<<Entry("a", Ref("A")), Entry("b", Ref("B"))>>),
      PyDict(<<Entry("anyOf", PyList(<<RawStr, Ref("A")>>))>>),
      RawObject(<<Entry("l", RawArray(Ref("B")))>>),
      RawObject(<<Entry("n", Ref("N"))>>),
      RawObject(<<Entry("d", Ref(ChainName(1)))>>),
      Ref("A") }

\* the definitions blocks: all defined; a definition that refers to another;
\* a definition whose reference is missing; a definition that refers to
\* itself; two definitions that refer to each other; a definition that refers
\* to itself and then to a missing one; the long chain
RefMaps ==
    { EmptyDict,
      PyDict(<<Entry("A", RawStr), Entry("B", RawArray(RawStr))>>),
      PyDict(<<Entry("A", RawObject(<<Entry("x", Ref("B"))>>)), Entry("B", RawStr)>>),
      PyDict(<<Entry("A", RawObject(<<Entry("x", Ref("B"))>>))>>),
      PyDict(<<Entry("N", RawObject(<<Entry("self", Ref("N"))>>)), Entry("A", RawStr)>>),
      PyDict(<<Entry("A", RawObject(<<Entry("x", Ref("B"))>>)),
               Entry("B", RawObject(<<Entry("y", Ref("A"))>>))>>),
      PyDict(<<Entry("A", RawObject(<<Entry("x", Ref("A")), Entry("y", Ref("B"))>>))>>),
      PyDict(Chain) }

\* the specifications handed to from_spec: a body, with or without a block
Specs ==
    SpecBodies \cup {PyDict(Append(body.c, Entry("$defs", defs))) :
                        body \in SpecBodies, defs \in RefMaps}

\* the ref_map arguments of resolve_refs; <<>> is None
RefMapArgs ==
    { <<>>, <<EmptyDict>>,
      <<PyDict(<<Entry("A", RawStr), Entry("B", RawArray(RawStr))>>)>>,
      <<PyDict(<<Entry("A", RawArray(RawStr))>>)>> }

ResolveInit ==
    /\ schemaId = 1
    /\ state = EmptyDict
    /\ widgets = NoWidgets
    /\ ret = [err |-> FALSE, val |-> PyNone]
    /\ ui = NoUi
    /\ log = <<>>
    /\ op = Op("init", "", "", PyNone, EmptyDict)
    /\ walks = 0
    /\ direct = 0
    /\ session = NoSession
    /\ wizards = NoSession
    /\ completion = NoCompletion
    /\ probe = NoProbe
    /\ call \in {[fn |-> "", args |-> <<spec>>, out |-> <<>>] : spec \in Specs}

\* schema = SettingsSchema.from_spec(spec)
FromSpec ==
    \E keeps_extra \in BOOLEAN :
        /\ call.fn = "" /\ call.args # <<>>
        /\ call' = [fn |-> "from_spec", args |-> call.args,
                    out |-> <<from_spec(call.args[1], keeps_extra)>>]
        /\ UNCHANGED <<schemaId, state, widgets, ret, ui, log, op, walks, direct,
                       session, wizards, completion, probe>>

\* schema.resolve_refs(ref_map)
ResolveRefs ==
    \E ref_map \in RefMapArgs :
        /\ call.fn = "from_spec"
        /\ call' = [fn |-> "resolve_refs", args |-> <<call.out[1], ref_map>>,
                    out |-> <<resolve_refs_map(call.out[1], ref_map)>>]
        /\ UNCHANGED <<schemaId, state, widgets, ret, ui, log, op, walks, direct,
                       session, wizards, completion, probe>>

ResolveNext == FromSpec \/ ResolveRefs
ResolveSpec == ResolveInit /\ [][ResolveNext]_vars

\* ------------------------------------------------------ the utilities ---
\* keys a dict can hold when an add action asks for the next key
KeyNames ==
    { "new_item_0", "new_item_1", "new_item_2", "new_item_9", "new_item_10",
      "new_item_01", "new_item_1x", "new_item_", "new_item_x", "xnew_item_5",
      "New_item_3", "foo" }
RECURSIVE SeqsUpTo(_, _)
SeqsUpTo(S, n) ==
    IF n = 0 THEN {<<>>}
    ELSE SeqsUpTo(S, n - 1) \cup
         {Append(q, x) : q \in {r \in SeqsUpTo(S, n - 1) : Len(r) = n - 1}, x \in S}

\* what the entries of a mapping to unpack hold: strings, a list that holds a
\* mapping, and mappings with and without the reserved key, nested, empty,
\* and with the reserved key inside the reserved mapping
UnpackValues ==
    LET K == ADDITIONAL_PROPERTIES_KEY
        one == PyStr("1")
    IN  { one, PyStr("2"),
          PyList(<<PyDict(<<Entry(K, PyDict(<<Entry("b", one)>>))>>)>>),
          EmptyDict,
          PyDict(<<Entry("a", PyStr("2"))>>),
          PyDict(<<Entry("b", one)>>),
          PyDict(<<Entry("c", one), Entry(K, PyDict(<<Entry("d", one)>>))>>),
          PyDict(<<Entry("c", PyDict(<<Entry(K, PyDict(<<Entry("d", one)>>))>>))>>),
          PyDict(<<Entry(K, EmptyDict)>>),
          PyDict(<<Entry(K, PyDict(<<Entry("x", one)>>))>>) }
UnpackKeys == {"a", "b", ADDITIONAL_PROPERTIES_KEY}
\* mappings of up to MaxEntries entries with distinct keys
UnpackData ==
    {PyDict(q) : q \in {r \in SeqsUpTo({Entry(k, v) : k \in UnpackKeys, v \in UnpackValues},
                                       MaxEntries) :
                           \A i, j \in 1..Len(r) : r[i].key = r[j].key => i = j}}

UtilsInit ==
    /\ schemaId = 1
    /\ state = EmptyDict
    /\ widgets = NoWidgets
    /\ ret = [err |-> FALSE, val |-> PyNone]
    /\ ui = NoUi
    /\ log = <<>>
    /\ op = Op("init", "", "", PyNone, EmptyDict)
    /\ walks = 0
    /\ direct = 0
    /\ session = NoSession
    /\ wizards = NoSession
    /\ completion = NoCompletion
    /\ probe = NoProbe
    /\ call \in {[fn |-> "keys", args |-> <<PyList(keys)>>, out |-> <<>>] :
                    keys \in SeqsUpTo({PyStr(k) : k \in KeyNames}, MaxKeys)}
               \cup {[fn |-> "data", args |-> <<data>>, out |-> <<>>] : data \in UnpackData}

\* data_dict[get_next_key(data_dict.keys())] = None, of the add action of a
\* dict input: the key of one add is among the keys of the next
NextKey ==
    /\ call.fn \in {"keys", "get_next_key"}
    /\ LET keys == IF call.fn = "keys" THEN ItemsOf(call.args[1])
                   ELSE Append(ItemsOf(call.args[1]), call.out[1])
       IN  /\ Len(keys) <= MaxKeys + 1
           /\ call' = [fn |-> "get_next_key", args |-> <<PyList(keys)>>,
                       out |-> <<PyStr(get_next_key([i \in 1..Len(keys) |-> keys[i].a]))>>]
    /\ UNCHANGED <<schemaId, state, widgets, ret, ui, log, op, walks, direct,
                   session, wizards, completion, probe>>

\* unpack_additional_properties(data, ADDITIONAL_PROPERTIES_KEY): the returned
\* mapping, and data after the call
Unpack ==
    /\ call.fn = "data"
    /\ call' = [fn |-> "unpack_additional_properties",
                args |-> <<call.args[1], ADDITIONAL_PROPERTIES_KEY>>,
                out |-> <<PyDict(unpack_additional_properties(call.args[1].c,
                                                              ADDITIONAL_PROPERTIES_KEY)),
                          call.args[1]>>]
    /\ UNCHANGED <<schemaId, state, widgets, ret, ui, log, op, walks, direct,
                   session, wizards, completion, probe>>

UtilsNext == NextKey \/ Unpack
UtilsSpec == UtilsInit /\ [][UtilsNext]_vars

\* ------------------------------------------------- union properties ---
\* the branches: a string, an integer, two untitled objects told apart by the
\* literal of "kind", and the same objects titled "Cat", "Dog" and "cat"
Kinded(literal) ==
    ObjectOf(<<Prop("kind", [Str EXCEPT !.const = <<PyStr(literal)>>]), Prop("x", Str)>>)
Branches ==
    { Str, [Str EXCEPT !.type = "integer"], Kinded("a"), Kinded("b"),
      [Kinded("a") EXCEPT !.title = "Cat"], [Kinded("b") EXCEPT !.title = "Dog"],
      [Kinded("b") EXCEPT !.title = "cat"] }
UnionDefaults ==
    { PyNone, PyInt("5"), PyStr("x"),
      PyDict(<<Entry("kind", PyStr("a")), Entry("x", PyStr("x"))>>),
      PyDict(<<Entry("kind", PyStr("b"))>>) }
\* the union properties rendered: anyOf or oneOf, with or without discriminator
Unions ==
    {[ResolvedSchema EXCEPT
         !.type = "", !.title = "U", !.anyOf = IF any THEN b ELSE <<>>,
         !.oneOf = IF any THEN <<>> ELSE b, !.discriminator = d,
         !.default = IF IsNone(v) THEN <<>> ELSE <<v>>] :
       b \in SeqsUpTo(Branches, MaxBranches) \ {<<>>}, any \in BOOLEAN,
       d \in {"", "kind"}, v \in UnionDefaults}

UnionInit ==
    /\ schemaId = 1
    /\ state = EmptyDict
    /\ widgets = NoWidgets
    /\ ret = [err |-> FALSE, val |-> PyNone]
    /\ ui = NoUi
    /\ log = <<>>
    /\ op = Op("init", "", "", PyNone, EmptyDict)
    /\ walks = 0
    /\ direct = 0
    /\ session = NoSession
    /\ wizards = NoSession
    /\ completion = NoCompletion
    /\ probe = NoProbe
    /\ call \in {[fn |-> "", args |-> <<u>>, out |-> <<>>] : u \in Unions}

\* _render_property of the union property "u" on an empty store, in a run where
\* the selectbox holds no choice (choice "") or the choice of an option
RenderUnion ==
    \E choice \in {""} \cup {UnionLabel(b) : b \in Branches} :
        LET select_key == InputKey(Inp(WizardKey, NoClick, NoWidgets), "u") \o "-select-union"
            inp == Inp(WizardKey, NoClick,
                       IF choice = "" THEN NoWidgets
                       ELSE [k \in {select_key} |-> PyStr(choice)])
            schema == call.args[1]
        IN  /\ call.fn = ""
            /\ call' = [fn |-> "render_union_input", args |-> call.args,
                        out |-> <<[choice |-> choice,
                                   sel |-> union_selection("u", schema,
                                               property_to_input_type(schema), inp),
                                   r |-> render_property(EmptyDict, "u", schema, inp)]>>]
            /\ UNCHANGED <<schemaId, state, widgets, ret, ui, log, op, walks, direct,
                           session, wizards, completion, probe>>

UnionNext == RenderUnion
UnionSpec == UnionInit /\ [][UnionNext]_vars

\* ------------------------------------------------- single fields ---
\* enum properties: one or two options, and a default that is absent, an
\* option, or no option
EnumFields ==
    {[Str EXCEPT !.enum = options, !.default = default] :
        options \in {<<"a">>, <<"a", "b">>, <<"b", "a">>},
        default \in {<<>>, <<PyStr("a")>>, <<PyStr("b")>>, <<PyStr("z")>>}}
\* integer and float properties with every combination of declared bounds
NumberFields ==
    {[Str EXCEPT !.type = type, !.multipleOf = m, !.minimum = lo,
                 !.exclusiveMinimum = xlo, !.maximum = hi, !.exclusiveMaximum = xhi] :
        type \in {"integer", "number"}, m \in {<<>>, <<200>>, <<50>>},
        lo \in {<<>>, <<0>>, <<1000>>, <<-150>>}, xlo \in {<<>>, <<0>>},
        hi \in {<<>>, <<1000>>}, xhi \in {<<>>, <<1000>>, <<550>>}}
\* text properties of every format, with and without a declared pattern
TextFormats == {"", "password", "email", "uuid", "uri", "ipv4", "ipv6"}
TextFields ==
    {[Str EXCEPT !.format = format, !.pattern = pattern, !.default = default] :
        format \in TextFormats, pattern \in {"", DeclaredPattern},
        default \in {<<>>, <<PyStr("x")>>}}
\* what the user can have typed into the text field
TextEntries ==
    {PyNone, PyStr(""), PyStr("x"), PyStr("a@b.co"), PyStr("10.0.0.1"), PyStr("10.0.0.256"),
     PyStr("h://ab"), PyStr("a b"), PyStr("01234567-89ab-cdef-0123-456789abcdef"),
     PyStr("1:2:3:4:5:6:7:8")}
Fields == EnumFields \cup NumberFields \cup TextFields
\* what the widget of the field holds: nothing, or a value entered earlier
FieldEntries == {PyNone, PyStr("a"), PyStr("b"), PyStr("z")}
FieldInp(entered) ==
    Inp(WizardKey, NoClick,
        IF IsNone(entered) THEN NoWidgets
        ELSE [k \in {InputKey(Inp(WizardKey, NoClick, NoWidgets), "f")} |-> entered])

FieldInit ==
    /\ schemaId = 1
    /\ state = EmptyDict
    /\ widgets = NoWidgets
    /\ ret = [err |-> FALSE, val |-> PyNone]
    /\ ui = NoUi
    /\ log = <<>>
    /\ op = Op("init", "", "", PyNone, EmptyDict)
    /\ walks = 0
    /\ direct = 0
    /\ session = NoSession
    /\ wizards = NoSession
    /\ completion = NoCompletion
    /\ probe = NoProbe
    /\ call \in {[fn |-> "", args |-> <<f, f>>, out |-> <<>>] : f \in Fields}

\* one visit of the field "f" gave `out` and left the schema object as `schema`;
\* call.args holds the schema object as it is now and as it was declared
Visited(fn, schema, entered, out, r) ==
    /\ walks < MaxWalks
    /\ call' = [fn |-> fn, args |-> <<schema, call.args[2]>>,
                out |-> <<[out EXCEPT !.entered = entered, !.r = r]>>]
    /\ walks' = walks + 1
    /\ UNCHANGED <<schemaId, state, widgets, ret, ui, log, op, direct,
                   session, wizards, completion, probe>>

\* _render_property of an enum field
RenderEnum ==
    \E entered \in FieldEntries :
        /\ property_to_input_type(call.args[1]) = "enum"
        /\ Visited("render_enum_input", call.args[1], entered,
                   [e |-> enum_input("f", call.args[1], FieldInp(entered)),
                    entered |-> PyNone, r |-> <<>>],
                   <<render_property(EmptyDict, "f", call.args[1], FieldInp(entered))>>)

\* _render_property of an integer or float field
RenderNumber ==
    \E entered \in {PyNone, PyInt("5")} :
        /\ property_to_input_type(call.args[1]) \in {"integer", "float"}
        /\ Visited("render_number_input", call.args[1], entered,
                   [e |-> number_input(call.args[1], property_to_input_type(call.args[1])),
                    entered |-> PyNone, r |-> <<>>],
                   <<render_property(EmptyDict, "f", call.args[1], FieldInp(entered))>>)

\* _render_property of a text field, on the schema object the earlier visits
\* of this wizard left
RenderText ==
    \E entered \in TextEntries :
        LET with_t(t) ==
                Visited("render_text_input", t.schema, entered,
                        [e |-> t, entered |-> PyNone, r |-> <<>>],
                        <<render_property(EmptyDict, "f", call.args[1], FieldInp(entered))>>)
        IN  /\ property_to_input_type(call.args[1]) \in TextKinds
            /\ with_t(text_input("f", call.args[1], property_to_input_type(call.args[1]),
                                 FieldInp(entered)))

FieldNext == RenderEnum \/ RenderNumber \/ RenderText
FieldSpec == FieldInit /\ [][FieldNext]_vars

\* ------------------------------------------------- the dispatch ---
\* the kinds, titles and keys the match statement is tried on
DispatchArgs ==
    {<<[Str EXCEPT !.title = title], PyStr(kind), PyStr(key)>> :
        title \in {"", "T"}, kind \in InputType, key \in {"p", "a.b"}}

DispatchInit ==
    /\ schemaId = 1
    /\ state = EmptyDict
    /\ widgets = NoWidgets
    /\ ret = [err |-> FALSE, val |-> PyNone]
    /\ ui = NoUi
    /\ log = <<>>
    /\ op = Op("init", "", "", PyNone, EmptyDict)
    /\ walks = 0
    /\ direct = 0
    /\ session = NoSession
    /\ wizards = NoSession
    /\ completion = NoCompletion
    /\ probe = NoProbe
    /\ call \in {[fn |-> "", args |-> a, out |-> <<>>] : a \in DispatchArgs}

\* the match statement of _render_property on a property of the given kind
Dispatch ==
    /\ call.fn = ""
    /\ call' = [fn |-> "dispatch", args |-> call.args,
                out |-> <<dispatch(call.args[2].a, call.args[3].a, call.args[1])>>]
    /\ UNCHANGED <<schemaId, state, widgets, ret, ui, log, op, walks, direct,
                   session, wizards, completion, probe>>

DispatchNext == Dispatch
DispatchSpec == DispatchInit /\ [][DispatchNext]_vars

\* ------------------------------------------------- the store's contract ---
RECURSIVE PeekAt(_, _)
\* the value a tree of mappings holds at a sequence of segments: <<v>>, or <<>>
PeekAt(node, parts) ==
    IF parts = <<>> THEN <<node>>
    ELSE IF IsDict(node) /\ HasKey(node.c, Head(parts))
         THEN PeekAt(Lookup(node.c, Head(parts)), Tail(parts))
         ELSE <<>>

RECURSIVE AllPaths(_)
\* every sequence of segments that addresses something in a tree of mappings
AllPaths(node) ==
    {<<>>} \cup
    (IF IsDict(node)
     THEN UNION {{<<node.c[i].key>> \o q : q \in AllPaths(node.c[i].val)} :
                    i \in 1..Len(node.c)}
     ELSE {})

IsPrefix(q, p) == Len(q) <= Len(p) /\ SubSeq(p, 1, Len(q)) = q
IsProperPrefix(q, p) == Len(q) < Len(p) /\ IsPrefix(q, p)
SharePrefix(q, p) == q # <<>> /\ p # <<>> /\ Head(q) = Head(p)

\* C1: on a store content that walks produced, _get_value(path) does not raise
\* and returns the stored value or None, whatever the path's intermediate
\* segments hold (for instance a list stored by an earlier walk).
C1_GetNeverRaises ==
    (op.name = "get" /\ direct = 1) =>
        /\ ~ret.err
        /\ ret.val = (IF PeekAt(op.pre, Split(op.id)) = <<>> THEN PyNone
                      ELSE PeekAt(op.pre, Split(op.id))[1])

\* C2: after _store_value(p, v), on any prior content, the call has not raised,
\* every intermediate level of p is a mapping, _get_value(p) returns v, and the
\* entries whose paths share no prefix with p are what they were.
C2_StoreThenGet ==
    op.name = "store" =>
        /\ ~ret.err
        /\ \A q \in AllPaths(state) : IsProperPrefix(q, Split(op.id)) => IsDict(PeekAt(state, q)[1])
        /\ ~get_value(state, op.id).err
        /\ get_value(state, op.id).val = op.val
        /\ \A q \in AllPaths(op.pre) \cup AllPaths(state) :
               ~SharePrefix(q, Split(op.id)) => PeekAt(state, q) = PeekAt(op.pre, q)

\* C3: _get_value(path) changes the store only by creating an empty mapping at
\* each missing intermediate segment of the path: the leaf is never created,
\* what existed before keeps its value, and when the read returns, every
\* intermediate segment that was missing holds a mapping.
C3_GetCreatesOnlyIntermediates ==
    op.name = "get" =>
        LET p == Split(op.id) IN
        /\ PeekAt(state, p) = PeekAt(op.pre, p)
        /\ \A q \in AllPaths(op.pre) :
               /\ PeekAt(state, q) # <<>>
               /\ IF IsDict(PeekAt(op.pre, q)[1])
                  THEN /\ IsDict(PeekAt(state, q)[1])
                       /\ ~IsProperPrefix(q, p) => PeekAt(state, q) = PeekAt(op.pre, q)
                  ELSE PeekAt(state, q) = PeekAt(op.pre, q)
        /\ \A q \in AllPaths(state) \ AllPaths(op.pre) :
               /\ IsProperPrefix(q, p)
               /\ PeekAt(state, q)[1] \in
                      {EmptyDict, PyDict(<<Entry(p[Len(q) + 1], EmptyDict)>>)}
        /\ ~ret.err => \A n \in 1..(Len(p) - 1) :
                           PeekAt(op.pre, SubSeq(p, 1, n)) = <<>> =>
                               /\ PeekAt(state, SubSeq(p, 1, n)) # <<>>
                               /\ IsDict(PeekAt(state, SubSeq(p, 1, n))[1])

\* a read through two missing intermediate segments has returned None
C3_Witness ==
    /\ op.name = "get"
    /\ ~ret.err
    /\ IsNone(ret.val)
    /\ Len(Split(op.id)) = 3
    /\ PeekAt(op.pre, SubSeq(Split(op.id), 1, 1)) = <<>>
    /\ PeekAt(state, SubSeq(Split(op.id), 1, 2)) = <<EmptyDict>>

\* ---------------------------------------------- the walk's contract ---
EndsWith(s, suffix) ==
    Len(s) >= Len(suffix) /\ SubSeq(s, Len(s) - Len(suffix) + 1, Len(s)) = suffix
AllDigits(s) == Len(s) > 0 /\ \A i \in 1..Len(s) : IsDigit(SubSeq(s, i, i))

RECURSIVE ProducedAt(_, _)
\* the value a value tree holds for the property rendered under a key path:
\* a mapping is entered by key (a dict entry's value is rendered under the
\* entry's key followed by "-value"), a list or tuple by index; <<v>>, or <<>>
ProducedAt(node, parts) ==
    IF parts = <<>> THEN <<node>>
    ELSE LET h == Head(parts)
             k == IF EndsWith(h, "-value") THEN SubSeq(h, 1, Len(h) - 6) ELSE h
         IN  CASE IsDict(node) ->
                      IF HasKey(node.c, h) THEN ProducedAt(Lookup(node.c, h), Tail(parts))
                      ELSE IF HasKey(node.c, k)
                           THEN ProducedAt(Lookup(node.c, k), Tail(parts))
                           ELSE <<>>
               [] node.k \in {"list", "tuple"} ->
                      IF AllDigits(h) /\ ParseDigits(h, 1, 0) < Len(node.c)
                      THEN ProducedAt(node.c[ParseDigits(h, 1, 0) + 1].val, Tail(parts))
                      ELSE <<>>
               [] OTHER -> <<>>

Sequences == {"list", "tuple", "set"}
IsVisit(e) == e.ev = "visit"

\* C4: a walk that follows a completed walk with no user action in between
\* completes too and returns the same value tree.
C4_WalkIdempotent ==
    [][(op.name = "walk" /\ ~ret.err /\ walks' = walks + 1 /\ op'.act = "none")
           => (~ret'.err /\ ret'.val = ret.val)]_vars

\* C5: in a walk without user action every list, tuple or set, at any depth,
\* starts with the length of the value the store holds for it from the walk
\* before; with nothing stored, with the length of its default; with no
\* default, with minItems, or 0.
C5_InitialLengthFromStore ==
    (op.name = "walk" /\ op.act = "none" /\ ~ret.err) =>
        \A c \in ui.colls :
            c.kind \in Sequences =>
                LET produced == ProducedAt(op.pre, Split(c.key)) IN
                c.init = IF produced # <<>> /\ ~IsNone(produced[1])
                         THEN Len(py_list(produced[1]))
                         ELSE IF c.dlen # NoneInt THEN c.dlen
                         ELSE IF c.min # NoneInt THEN c.min
                         ELSE 0

\* C6: a list, tuple or set that declares minItems offers no remove action
\* while its length is at or below its minItems or while it is read-only, and
\* having started a walk with at least minItems items it returns at least
\* minItems items.
C6_RemoveRespectsMinItems ==
    \A c \in ui.colls :
        (c.kind \in Sequences /\ c.min # NoneInt) =>
            /\ (c.n <= c.min \/ c.ro) => ~c.rm
            /\ c.init >= c.min => c.out >= c.min

\* C7: the clear action of every rendered collection (list, tuple, set, dict,
\* additional-properties region) is enabled exactly when the collection's
\* schema is not read-only.
C7_ClearDisabledIffReadOnly ==
    \A c \in ui.colls : c.clr <=> ~c.ro

\* C8: a collection that declares maxItems and starts a walk within it offers
\* add exactly when it is below maxItems and not read-only, returns at most
\* maxItems entries, and, when read-only, returns no more entries than it
\* started the walk with.
C8_AddRespectsMaxItems ==
    \A c \in ui.colls :
        (c.max # NoneInt /\ c.init <= c.max) =>
            /\ c.add <=> ~(c.init >= c.max \/ c.ro)
            /\ c.out <= c.max
            /\ c.ro => c.out <= c.init

\* C9: a completed walk returns {} having visited nothing exactly when the
\* schema declares neither properties nor additional properties; when it
\* declares additional properties the region is rendered, its result is in the
\* store under the reserved key, and its entries are at the top level of the
\* returned tree.
C9_EmptyIffNothingDeclared ==
    (op.name = "walk" /\ ~ret.err) =>
        /\ (ret.val = EmptyDict /\ log = <<>> /\ ui = NoUi)
               <=> (Schema.properties = <<>> /\ ~HasAdditionalProperties(Schema))
        /\ HasAdditionalProperties(Schema) =>
               /\ \E c \in ui.colls : c.key = ADDITIONAL_PROPERTIES_KEY
               /\ HasKey(state.c, ADDITIONAL_PROPERTIES_KEY)
               /\ \A i \in 1..Len(Lookup(state.c, ADDITIONAL_PROPERTIES_KEY).c) :
                      LET e == Lookup(state.c, ADDITIONAL_PROPERTIES_KEY).c[i] IN
                      HasKey(ret.val.c, e.key) /\ Lookup(ret.val.c, e.key) = e.val

\* C10: a completed walk has visited the declared top-level properties once
\* each in declaration order, has stored each value right after its visit, and
\* returns a tree that maps every declared key to the value of its visit unless
\* an additional-properties entry has the same key.
C10_VisitOrderAndTree ==
    (op.name = "walk" /\ ~ret.err /\ Schema.properties # <<>>) =>
        LET props == Schema.properties
            visits == SelectSeq(log, IsVisit)
            adds == IF HasKey(state.c, ADDITIONAL_PROPERTIES_KEY)
                    THEN Lookup(state.c, ADDITIONAL_PROPERTIES_KEY).c ELSE <<>>
        IN  /\ Len(visits) = Len(props)
            /\ \A i \in 1..Len(props) :
                   /\ log[2 * i - 1] = Event("visit", props[i].key, visits[i].val)
                   /\ log[2 * i] = Event("store", props[i].key, visits[i].val)
                   /\ \/ HasKey(adds, props[i].key)
                      \/ /\ HasKey(ret.val.c, props[i].key)
                         /\ Lookup(ret.val.c, props[i].key) = visits[i].val

\* ------------------------------------------- additional properties ---
AdditionalSuffix == KEY_SEPARATOR \o "additionalProperties"
\* a rendered mapping is an additional-properties region when its key is the
\* sentinel (top level) or "<object key>.additionalProperties" (nested)
IsRegion(key) == key = ADDITIONAL_PROPERTIES_KEY \/ EndsWith(key, AdditionalSuffix)
\* the key path of the object a region belongs to
RegionOwner(key) ==
    IF key = ADDITIONAL_PROPERTIES_KEY THEN <<>>
    ELSE Split(SubSeq(key, 1, Len(key) - Len(AdditionalSuffix)))

RECURSIVE DeclaredAt(_, _)
\* the property keys a schema declares for the object under a key path
DeclaredAt(schema, parts) ==
    IF parts = <<>> THEN {schema.properties[i].key : i \in 1..Len(schema.properties)}
    ELSE UNION {DeclaredAt(schema.properties[i].schema, Tail(parts)) :
                   i \in {j \in 1..Len(schema.properties) :
                              schema.properties[j].key = Head(parts)}}

\* the entries of region d whose key is also a declared property of its object
Collisions(d) ==
    {i \in 1..Len(d.val.c) : d.val.c[i].key \in DeclaredAt(Schema, RegionOwner(d.key))}
\* the object of region d, in the returned value tree
OwnerValue(d) == ProducedAt(ret.val, RegionOwner(d.key))

\* C11: after a completed walk, an additional-properties entry whose key is
\* also a declared property of the same object is what the returned value tree
\* holds under that key, at the top level and in nested objects alike.
C11_AdditionalEntryWins ==
    (op.name = "walk" /\ ~ret.err) =>
        \A d \in ui.dicts :
            IsRegion(d.key) =>
                \A i \in Collisions(d) :
                    /\ OwnerValue(d) # <<>>
                    /\ IsDict(OwnerValue(d)[1])
                    /\ HasKey(OwnerValue(d)[1].c, d.val.c[i].key)
                    /\ Lookup(OwnerValue(d)[1].c, d.val.c[i].key) = d.val.c[i].val

\* a completed walk rendered a colliding entry both at the top level and in a
\* nested object, each with a value other than the declared property's "x"
C11_Witness ==
    /\ op.name = "walk" /\ ~ret.err
    /\ \E d \in ui.dicts, n \in ui.dicts :
           /\ d.key = ADDITIONAL_PROPERTIES_KEY
           /\ n.key # d.key /\ IsRegion(n.key)
           /\ \E i \in Collisions(d) : d.val.c[i].val # PyStr("x")
           /\ \E i \in Collisions(n) : n.val.c[i].val # PyStr("x")
           /\ \E j \in 1..Len(log) : IsVisit(log[j]) /\ log[j].key = "new_item_0" /\ log[j].val = PyStr("x")

\* what the entry at position i of the rendered mapping d contributed, if the
\* entry was rendered (a removed entry is not)
EntriesAt(d, i) ==
    {e \in ui.entries : e.at = d.key \o KEY_SEPARATOR \o d.data[i]}
Unrenamed(d, i) ==
    \E e \in EntriesAt(d, i) : e.output_item_key = e.item_key

\* C12: in a dict or additional-properties region, an entry whose entered key
\* equals the key under which an earlier entry of the same walk was placed is
\* returned under its own original key, and the earlier entry keeps its value.
C12_RenameCollisionKeepsOriginal ==
    \A d \in ui.dicts :
        \A i \in 1..Len(d.data), j \in 1..Len(d.data) :
            \A e \in EntriesAt(d, i), f \in EntriesAt(d, j) :
                (/\ j < i
                 /\ \A m \in 1..(i - 1) : Unrenamed(d, m)
                 /\ e.output_item_key = f.item_key)
                    => /\ HasKey(d.val.c, e.item_key)
                       /\ Lookup(d.val.c, e.item_key) = e.val
                       /\ HasKey(d.val.c, f.item_key)
                       /\ Lookup(d.val.c, f.item_key) = f.val

\* ------------------------------------------------ wizards in a session ---
ActsOnStore == {"walk", "wizard", "store", "get"}
\* the store a wizard has in a session, if any
StoreIn(sess, slot) ==
    IF StateKey(wizards[slot].key) \in DOMAIN sess THEN <<StoreOf(sess, slot)>> ELSE <<>>
\* what a walk without user action would return for the wizard in a slot
TreeIn(sess, slot) ==
    render_schema(StoreOf(sess, slot), wizards[slot].schema,
                  Inp(wizards[slot].key, NoClick, NoWidgets)).val
\* the wizards other than the acting one whose identity key differs from its
Strangers ==
    {b \in DOMAIN wizards : b # op.who /\ wizards[b].key # wizards[op.who].key}

C14_ResolutionFailsBeforeState ==
    /\ (op.name = "construct" /\ ret.err) =>
           /\ session = op.pre
           /\ op.who \notin DOMAIN wizards
    /\ op.name \in ActsOnStore => op.who \in DOMAIN wizards

\* the construction of a second wizard from the self-referring schema failed
\* after a first wizard had been constructed and had stored values
C14_Witness ==
    /\ op.name = "construct" /\ ret.err /\ op.id = 4
    /\ \E k \in DOMAIN session : IsDict(session[k]) /\ session[k] # EmptyDict
    /\ StateKey(IdentityKey(op.act, RawTable[op.id])) \notin DOMAIN session

\* C15: a render_wizard cycle makes one walk; when the submit action fired it
\* calls the completion function once, with that walk's value tree and the
\* forwarded arguments, and returns its result; otherwise it calls nothing and
\* returns None.
C15_CompletionIffSubmitted ==
    (op.name = "wizard" /\ ~ret.err) =>
        /\ ret.val = TreeIn(op.pre, op.who)
        /\ log = render_schema(StoreOf(op.pre, op.who), wizards[op.who].schema,
                                Inp(wizards[op.who].key, NoClick, NoWidgets)).log
        /\ IF op.act = "submit"
           THEN /\ completion.calls = <<[data |-> ret.val, args |-> ItemsOf(op.val)]>>
                /\ completion.out = SubmitFn(op.id, ret.val, ItemsOf(op.val))
           ELSE /\ completion.calls = <<>>
                /\ completion.out = PyNone

\* a cycle in which the submit action fired and the caller's function returned
\* a non-empty tree together with the forwarded argument
C15_Witness ==
    /\ op.name = "wizard" /\ op.act = "submit" /\ op.id = "caller" /\ ~ret.err
    /\ ret.val # EmptyDict
    /\ Len(completion.calls) = 1
    /\ completion.out = PySeq("tuple", <<ret.val, PyStr("x")>>)

\* ------------------------------------------ the classifier's contract ---
Classified == probe.node # <<>> /\ probe.kind # ""
Node == probe.node[1]
HasBranches(n) == n.anyOf # <<>> \/ n.oneOf # <<>>
\* no enum, no discriminator, no union branches: the declared type decides
Plain(n) == n.enum = <<>> /\ n.discriminator = "" /\ ~HasBranches(n)
\* the kinds each declared type can give
KindsOfType(t) ==
    CASE t = "string" -> {"text", "email", "password", "uri", "uuid", "ipv4", "ipv6",
                          "file_path", "directory_path"}
      [] t = "number" -> {"float"}
      [] t = "integer" -> {"integer"}
      [] t = "boolean" -> {"boolean"}
      [] t = "array" -> {"list", "tuple", "set"}
      [] t = "object" -> {"object", "dict", "any"}
      [] t = "null" -> {"null"}
      [] OTHER -> {"any"}

\* C16: a node with a non-empty enum classifies as enum whatever else it
\* holds; otherwise one with a discriminator as discriminated_union; otherwise
\* one with anyOf or oneOf as union; only otherwise the declared type decides.
C16_ClassifierPrecedence ==
    Classified =>
        /\ Node.enum # <<>> => probe.kind = "enum"
        /\ (Node.enum = <<>> /\ Node.discriminator # "") =>
               probe.kind = "discriminated_union"
        /\ (Node.enum = <<>> /\ Node.discriminator = "" /\ HasBranches(Node)) =>
               probe.kind = "union"
        /\ Plain(Node) => probe.kind \in KindsOfType(Node.type)

\* an array node with a discriminator and union branches, and no enum
C16_Witness ==
    /\ Classified
    /\ Node.enum = <<>> /\ Node.discriminator # "" /\ HasBranches(Node)
    /\ Node.type = "array" /\ Node.prefixItems # <<>>
    /\ probe.kind = "discriminated_union"

\* C17: an array node without enum, discriminator or union branches is a tuple
\* when it has prefixItems, otherwise a set when uniqueItems is true, otherwise
\* a list.
C17_ArrayKinds ==
    (Classified /\ Plain(Node) /\ Node.type = "array") =>
        probe.kind = IF Node.prefixItems # <<>> THEN "tuple"
                     ELSE IF Node.uniqueItems THEN "set"
                     ELSE "list"

\* an array node with both prefixItems and uniqueItems
C17_Witness ==
    /\ Classified /\ Plain(Node) /\ Node.type = "array"
    /\ Node.prefixItems # <<>> /\ Node.uniqueItems
    /\ probe.kind = "tuple"

\* C18: an object node without enum, discriminator or union branches is an
\* object when it has properties, otherwise a dict when additionalProperties is
\* a schema or true, otherwise any; a null node is null; a node without
\* declared type is any.
C18_ObjectKinds ==
    (Classified /\ Plain(Node)) =>
        /\ Node.type = "object" =>
               probe.kind =
                   IF Node.properties # <<>> THEN "object"
                   ELSE IF \/ Node.additionalProperties.kind = "schema"
                           \/ Node.additionalProperties = AdditionalBool(TRUE)
                        THEN "dict"
                        ELSE "any"
        /\ Node.type = "null" => probe.kind = "null"
        /\ Node.type = "" => probe.kind = "any"

\* an object node with both properties and additionalProperties true
C18_Witness ==
    /\ Classified /\ Plain(Node) /\ Node.type = "object"
    /\ Node.properties # <<>> /\ Node.additionalProperties = AdditionalBool(TRUE)
    /\ probe.kind = "object"

\* the schema shaped for a kind
ShapedFor(kind) ==
    CASE kind = "text" -> Str
      [] kind \in {"email", "password", "uri", "uuid", "ipv4", "ipv6", "file_path",
                   "directory_path", "date", "time", "duration"} ->
             [Str EXCEPT !.format = kind]
      [] kind = "datetime" -> [Str EXCEPT !.format = "date-time"]
      [] kind = "integer" -> [ResolvedSchema EXCEPT !.type = "integer"]
      [] kind = "float" -> [ResolvedSchema EXCEPT !.type = "number"]
      [] kind = "boolean" -> [ResolvedSchema EXCEPT !.type = "boolean"]
      [] kind = "enum" -> [Str EXCEPT !.enum = <<"a">>]
      [] kind = "list" -> [ResolvedSchema EXCEPT !.type = "array"]
      [] kind = "tuple" -> [ResolvedSchema EXCEPT !.type = "array", !.prefixItems = <<Str>>]
      [] kind = "set" -> [ResolvedSchema EXCEPT !.type = "array", !.uniqueItems = TRUE]
      [] kind = "dict" -> [ResolvedSchema EXCEPT !.additionalProperties = AdditionalBool(TRUE)]
      [] kind = "object" -> [ResolvedSchema EXCEPT !.properties = <<Prop("a", Str)>>]
      [] kind = "union" -> [ResolvedSchema EXCEPT !.oneOf = <<Str>>]
      [] kind = "discriminated_union" ->
             [ResolvedSchema EXCEPT !.oneOf = <<Str>>, !.discriminator = "kind"]
      [] kind = "any" -> [ResolvedSchema EXCEPT !.type = ""]
      [] kind = "null" -> [ResolvedSchema EXCEPT !.type = "null"]

\* C19: the schema shaped for a kind classifies as that kind, for every member
\* of InputType; a string node of format file_path or directory_path
\* classifies as that kind.
C19_EveryKindClassified ==
    Classified => \A kind \in InputType : Node = ShapedFor(kind) => probe.kind = kind

\* C20: is_complex is true of list, tuple, set, dict, object, union and
\* discriminated_union, and false of every other member of InputType.
C20_ComplexKinds ==
    probe.kind # "" =>
        /\ probe.kind \in InputType
        /\ probe.complex <=>
               probe.kind \in {"list", "tuple", "set", "dict", "object", "union",
                               "discriminated_union"}

\* is_complex was asked of the member discriminated_union
C20_Witness ==
    probe.node = <<>> /\ probe.kind = "discriminated_union" /\ probe.complex

\* ------------------------------------------------ resolution's contract ---
Resolving == call.fn = "resolve_refs"
Returned == Resolving /\ call.out[1].err = ""
\* the reference map a call resolves against: the passed one, else the stored one
MapOf(args) == IF args[2] # <<>> THEN args[2][1] ELSE args[1].ref_map[1]

IsRef(t) == IsDict(t) /\ HasKey(t.c, "$ref")
RECURSIVE NoRef(_)
NoRef(t) == ~IsRef(t) /\ \A i \in 1..Len(t.c) : NoRef(t.c[i].val)

\* the last path segment of the pointer is `name`
PointsTo(pointer, name) ==
    /\ Len(pointer) > Len(name)
    /\ SubSeq(pointer, Len(pointer) - Len(name), Len(pointer)) = "/" \o name
    /\ \A i \in 1..Len(name) : SubSeq(name, i, i) # "/"

\* tree t is obj with every reference replaced by the resolved content of the
\* definition its pointer names
RECURSIVE Substituted(_, _, _)
Substituted(obj, t, ref_map) ==
    IF IsRef(obj)
    THEN \E i \in 1..Len(ref_map.c) :
            /\ PointsTo(Lookup(obj.c, "$ref").a, ref_map.c[i].key)
            /\ Substituted(ref_map.c[i].val, t, ref_map)
    ELSE IF obj.k \in {"dict", "list"}
    THEN /\ t.k = obj.k
         /\ Len(t.c) = Len(obj.c)
         /\ \A i \in 1..Len(obj.c) :
                /\ t.c[i].key = obj.c[i].key
                /\ Substituted(obj.c[i].val, t.c[i].val, ref_map)
    ELSE t = obj

\* C21: when resolve_refs returns, the returned tree has no $ref marker at any
\* depth, in mappings or in sequences, and it is the schema's dump with each
\* $ref node replaced by the resolved content of the definition that the last
\* path segment of its pointer names.
C21_ResolvedTreeHasNoRef ==
    Returned =>
        /\ NoRef(call.out[1].tree[1])
        /\ Substituted(call.args[1].dump, call.out[1].tree[1], MapOf(call.args))

\* a reference inside a sequence was replaced by a definition that itself
\* held a reference
C21_Witness ==
    /\ Returned
    /\ \E i \in 1..Len(call.args[1].dump.c) :
          /\ Len(call.out[1].tree[1].c) = Len(call.args[1].dump.c)
          /\ call.args[1].dump.c[i].val = PyList(<<RawStr, Ref("A")>>)
          /\ call.out[1].tree[1].c[i].val =
                 PyList(<<RawStr, RawObject(<<Entry("x", RawStr)>>)>>)

HasMap(args) == args[2] # <<>> \/ args[1].ref_map # <<>>
\* the definition name a pointer ends with: its part after the last "/"
NameOf(pointer) ==
    CHOOSE name \in {SubSeq(pointer, i, Len(pointer)) : i \in 1..(Len(pointer) + 1)} :
        PointsTo(pointer, name)
\* the names that the references met in obj point to; what stands beside a
\* $ref in its mapping is replaced with it
RECURSIVE RefNames(_)
RefNames(obj) ==
    IF IsRef(obj) THEN {NameOf(Lookup(obj.c, "$ref").a)}
    ELSE UNION {RefNames(obj.c[i].val) : i \in 1..Len(obj.c)}
Defined(ref_map) == {ref_map.c[i].key : i \in 1..Len(ref_map.c)}
\* the names reachable from a set of names through the definitions
RECURSIVE Closure(_, _)
Closure(names, ref_map) ==
    LET more == names \cup UNION {RefNames(Lookup(ref_map.c, n)) :
                                     n \in names \cap Defined(ref_map)}
    IN  IF more = names THEN names ELSE Closure(more, ref_map)
Reach(args) == Closure(RefNames(args[1].dump), MapOf(args))
Missing(args) == Reach(args) \ Defined(MapOf(args))
\* some reachable definition is reachable from itself
Cyclic(args) ==
    \E n \in Reach(args) \cap Defined(MapOf(args)) :
        n \in Closure(RefNames(Lookup(MapOf(args).c, n)), MapOf(args))
NotFound(names) == {KeyErrorOf(n) : n \in names}

C23_CircularIffCycle ==
    (Resolving /\ HasMap(call.args) /\ Missing(call.args) = {}) =>
        IF Cyclic(call.args) THEN call.out[1].err = CircularError
        ELSE call.out[1].err = "" /\ call.out[1].tree # <<>>

\* C24: resolve_refs has no side effect: after the call, returned or raised,
\* the schema object (its dump and its stored reference map) and the passed
\* ref_map are what they were before it.
C24_ResolveLeavesInputs ==
    Resolving =>
        /\ call.out[1].self = call.args[1]
        /\ call.out[1].ref_map = call.args[2]

\* a call with a ref_map argument that substituted a definition, so that the
\* returned tree differs from the dump
C24_Witness ==
    /\ Returned
    /\ call.args[2] # <<>>
    /\ call.out[1].tree[1] # call.args[1].dump
    /\ ~NoRef(call.args[1].dump)

\* C25: a schema built by from_spec from a specification with no $defs block
\* and no $ref resolves when resolve_refs is called as the backend
\* constructor calls it, with no argument.
C25_DefinitionsOptional ==
    (/\ Resolving
     /\ call.args[2] = <<>>
     /\ call.args[1].ref_map = <<>>
     /\ NoRef(call.args[1].dump)) => Returned

\* C26: with no ref_map argument and no stored reference map, resolve_refs
\* raises ValueError 'No reference map provided for resolving references.';
\* with a ref_map argument the references are resolved against it, whatever
\* the stored map is.
C26_PassedMapReplacesStored ==
    Resolving =>
        /\ (call.args[2] = <<>> /\ call.args[1].ref_map = <<>>) =>
               /\ call.out[1].err = NoMapError
               /\ call.out[1].tree = <<>>
        /\ call.args[2] # <<>> =>
               /\ Returned =>
                      Substituted(call.args[1].dump, call.out[1].tree[1], call.args[2][1])
               /\ call.out[1].err \in
                      {"", CircularError} \cup
                      NotFound(Closure(RefNames(call.args[1].dump), call.args[2][1])
                                   \ Defined(call.args[2][1]))

\* the stored map defines A otherwise than the passed one, and the tree holds
\* the passed definition
C26_Witness ==
    /\ Returned
    /\ call.args[2] # <<>> /\ call.args[1].ref_map # <<>>
    /\ call.args[1].dump = Ref("A")
    /\ HasKey(call.args[1].ref_map[1].c, "A")
    /\ Lookup(call.args[1].ref_map[1].c, "A") # Lookup(call.args[2][1].c, "A")
    /\ call.out[1].tree[1] = Lookup(call.args[2][1].c, "A")

\* no stored map and no argument: the ValueError
C26_NoMapWitness ==
    /\ Resolving
    /\ call.args[2] = <<>> /\ call.args[1].ref_map = <<>>
    /\ call.out[1].err = NoMapError

\* ------------------------------------------------ the utilities' contract ---
RECURSIVE Pow10(_)
Pow10(n) == IF n = 0 THEN 1 ELSE 10 * Pow10(n - 1)
\* the number a string of digits writes
RECURSIVE Written(_)
Written(s) ==
    IF s = "" THEN 0
    ELSE DigitVal(SubSeq(s, 1, 1)) * Pow10(Len(s) - 1) + Written(SubSeq(s, 2, Len(s)))
\* k is new_item_<N>: the prefix, then digits only
HasForm(k) ==
    Len(k) >= 10 /\ SubSeq(k, 1, 9) = "new_item_" /\ AllDigits(SubSeq(k, 10, Len(k)))
\* k begins with new_item_<N>: the prefix, then at least one digit
BeginsWithForm(k) == \E j \in 10..Len(k) : HasForm(SubSeq(k, 1, j))
\* the N of the longest new_item_<N> that k begins with
NumberIn(k) ==
    LET j == CHOOSE j \in 10..Len(k) :
                 /\ HasForm(SubSeq(k, 1, j))
                 /\ \A i \in 10..Len(k) : HasForm(SubSeq(k, 1, i)) => i <= j
    IN  Written(SubSeq(k, 10, j))
Largest(ns) == CHOOSE m \in ns : \A n \in ns : n <= m
\* key is new_item_<n>, n written without leading zeros
IsKeyFor(key, n) ==
    /\ HasForm(key) /\ Written(SubSeq(key, 10, Len(key))) = n
    /\ Len(key) = 10 \/ SubSeq(key, 10, 10) # "0"
KeysAsked == {call.args[1].c[i].val.a : i \in 1..Len(call.args[1].c)}

\* C27 as stated: the returned key is new_item_<m+1> for the largest N among
\* the keys that are new_item_<N>, new_item_0 when there is none, every other
\* key being ignored; and it is none of the existing keys.
C27_NextKeyOfExactForm ==
    call.fn = "get_next_key" =>
        /\ IsKeyFor(call.out[1].a,
                    Largest({NumberIn(k) : k \in {x \in KeysAsked : HasForm(x)}} \cup {-1}) + 1)
        /\ call.out[1].a \notin KeysAsked

\* C27: the returned key is new_item_<m+1> for the largest N among the keys
\* that begin with new_item_<N> (whatever follows the digits), new_item_0 when
\* there is none; and it is none of the existing keys, so an add action never
\* reuses a key that is present.
C27_NextKeyAfterLargest ==
    call.fn = "get_next_key" =>
        /\ IsKeyFor(call.out[1].a,
                    Largest({NumberIn(k) : k \in {x \in KeysAsked : BeginsWithForm(x)}} \cup {-1}) + 1)
        /\ call.out[1].a \notin KeysAsked

\* a second add on a dict that held new_item_10 and new_item_2
C27_Witness ==
    /\ call.fn = "get_next_key"
    /\ call.args[1] = PyList(<<PyStr("new_item_10"), PyStr("new_item_2"), PyStr("new_item_11")>>)
    /\ call.out[1] = PyStr("new_item_12")

Unpacking == call.fn = "unpack_additional_properties"
IsReserved(e) == e.key = ADDITIONAL_PROPERTIES_KEY /\ IsDict(e.val)
\* the entries of a mapping, those of each reserved mapping standing where
\* the reserved key stood
Flat(entries) ==
    LET F[i \in 0..Len(entries)] ==
            IF i = 0 THEN <<>>
            ELSE IF IsReserved(entries[i]) THEN F[i - 1] \o entries[i].val.c
                 ELSE Append(F[i - 1], entries[i])
    IN  F[Len(entries)]
First(flat, key) == CHOOSE i \in 1..Len(flat) :
                        flat[i].key = key /\ \A j \in 1..(i - 1) : flat[j].key # key
Last(flat, key) == CHOOSE i \in 1..Len(flat) :
                       flat[i].key = key /\ \A j \in (i + 1)..Len(flat) : flat[j].key # key

\* no mapping reached through mappings holds a mapping under the reserved key
RECURSIVE NoReservedMapping(_)
NoReservedMapping(t) ==
    IsDict(t) => \A i \in 1..Len(t.c) : ~IsReserved(t.c[i]) /\ NoReservedMapping(t.c[i].val)

\* result is data as the claim states it: every entry that is not under the
\* reserved key is there with its key and its (unpacked) value, every entry
\* of a reserved mapping is there too, and nothing else is
RECURSIVE AsStated(_, _)
AsStated(data, result) ==
    LET Holds(e) ==
            /\ HasKey(result.c, e.key)
            /\ IF IsDict(e.val) THEN AsStated(e.val, Lookup(result.c, e.key))
               ELSE Lookup(result.c, e.key) = e.val
    IN  /\ IsDict(result)
        /\ \A i \in 1..Len(data.c) :
              IF IsReserved(data.c[i])
              THEN \A j \in 1..Len(data.c[i].val.c) : Holds(data.c[i].val.c[j])
              ELSE Holds(data.c[i])
        /\ \A i \in 1..Len(result.c) :
              \E j \in 1..Len(Flat(data.c)) : Flat(data.c)[j].key = result.c[i].key

\* result is data unpacked: the keys of the flattened entries, each once and
\* in the order of its first entry, each with the (unpacked) value of its
\* last entry
RECURSIVE Unpacked(_, _)
Unpacked(data, result) ==
    LET flat == Flat(data.c) IN
    /\ IsDict(result)
    /\ {result.c[i].key : i \in 1..Len(result.c)} = {flat[j].key : j \in 1..Len(flat)}
    /\ \A i, j \in 1..Len(result.c) :
          i < j => First(flat, result.c[i].key) < First(flat, result.c[j].key)
    /\ \A i \in 1..Len(result.c) :
          LET v == flat[Last(flat, result.c[i].key)].val
          IN  IF IsDict(v) THEN Unpacked(v, result.c[i].val) ELSE result.c[i].val = v

CarriedOver(d, dicts) ==
    \E e \in dicts :
        /\ e.key = d.key
        /\ \A i \in 1..Len(d.val.c) : \E j \in 1..Len(e.data) : e.data[j] = d.val.c[i].key
\* two successive completed walks, the second without a clear, a remove or a
\* change of key
SuccessiveWalks ==
    /\ op.name = "walk" /\ ~ret.err
    /\ walks' = walks + 1 /\ ~ret'.err
    /\ op'.act \in {"none", "add", "edit"}
NestedRegions(dicts) == {d \in dicts : EndsWith(d.key, AdditionalSuffix)}
TopRegions(dicts) == {d \in dicts : d.key = ADDITIONAL_PROPERTIES_KEY}

\* C29: the entries that the additional-properties region of a nested object
\* returned in one walk are among the region's starting entries in the
\* next walk, as they are for the top-level region.
C29_NestedRegionAccumulates ==
    [][SuccessiveWalks => \A d \in NestedRegions(ui.dicts) : CarriedOver(d, ui'.dicts)]_vars

\* the same of the top-level region
C29_TopRegionAccumulates ==
    [][SuccessiveWalks => \A d \in TopRegions(ui.dicts) : CarriedOver(d, ui'.dicts)]_vars

\* ------------------------------------------------- the union's contract ---
UnionOf(c) == c.args[1]
BranchesOf(u) == IF u.anyOf # <<>> THEN u.anyOf ELSE u.oneOf
\* the union is rendered with a default and the selectbox holds no choice
Preselecting ==
    /\ call.fn = "render_union_input"
    /\ call.out[1].choice = ""
    /\ UnionOf(call).default # <<>>
\* branch b declares the discriminator with the literal of the value's field
LiteralMatches(b, u) ==
    \E i \in 1..Len(b.properties) :
        /\ b.properties[i].key = u.discriminator
        /\ b.properties[i].schema.const = <<Lookup(u.default[1].c, u.discriminator)>>
\* a discriminated union as the code expects it: every branch declares the
\* discriminator, and the value has the field
WellFormed(u) ==
    u.discriminator # "" =>
        /\ IsDict(u.default[1]) /\ HasKey(u.default[1].c, u.discriminator)
        /\ \A i \in 1..Len(BranchesOf(u)) :
              \E j \in 1..Len(BranchesOf(u)[i].properties) :
                  BranchesOf(u)[i].properties[j].key = u.discriminator
\* the branches the value matches
Matching(u) ==
    {i \in 1..Len(BranchesOf(u)) :
        IF u.discriminator # "" THEN LiteralMatches(BranchesOf(u)[i], u)
        ELSE is_assignable(u.default[1], BranchesOf(u)[i])}
Smallest(S) == CHOOSE i \in S : \A j \in S : i <= j

\* C30: a union rendered with a default that matches some branch pre-selects
\* the first matching branch (for a plain union the first the value validates
\* against, for a discriminated union the one whose discriminator literal is
\* the value's field) and visits that branch with the value as its default.
C30_PreselectsFirstMatch ==
    (Preselecting /\ WellFormed(UnionOf(call)) /\ Matching(UnionOf(call)) # {}) =>
        LET u == UnionOf(call)
            m == Smallest(Matching(u))
        IN  /\ call.out[1].sel.err = ""
            /\ call.out[1].sel.index = m - 1
            /\ call.out[1].sel.visited = <<[BranchesOf(u)[m] EXCEPT !.default = u.default]>>
            /\ ~call.out[1].r.err

\* ------------------------------------------------- tuples' contract ---
\* the positions of the top-level properties rendered as tuples
TupleProps ==
    {i \in 1..Len(Schema.properties) :
        property_to_input_type(Schema.properties[i].schema) = "tuple"}

\* C31: after any sequence of walks a tuple has at most as many items as its
\* schema has prefixItems, and the look-up of prefixItems[i] never fails: the
\* walk returns, and the tuple it returns is no longer than prefixItems.
C31_TupleWithinPrefixItems ==
    (op.name = "walk" /\ TupleProps # {}) =>
        /\ ~ret.err
        /\ \A i \in TupleProps :
              Len(ItemsOf(Lookup(ret.val.c, Schema.properties[i].key)))
                  <= Len(Schema.properties[i].schema.prefixItems)

\* ------------------------------------------------- the fields' contract ---
FieldOf(c) == c.args[1]
Declared(c) == c.args[2]
EnumVisited == call.fn = "render_enum_input"

\* C32: an enum with exactly one option returns that option without prompting,
\* whatever the schema default (absent, the option, or no option at all); an
\* enum with two or more options returns one of the options or nothing.
C32_SingleOptionShortCircuits ==
    EnumVisited =>
        LET options == FieldOf(call).enum
            e == call.out[1].e
        IN  /\ call.out[1].r[1].err = (e.err # "")
            /\ IF Len(options) = 1
               THEN e.err = "" /\ ~e.prompted /\ e.val = PyStr(options[1])
               ELSE /\ e.err = ""
                    /\ IsNone(e.val) \/ \E i \in 1..Len(options) : e.val = PyStr(options[i])

IntegerVisited ==
    call.fn = "render_number_input" /\ property_to_input_type(FieldOf(call)) = "integer"

\* C33: for an integer property the step is multipleOf when set and 1
\* otherwise; the lower bound is exclusiveMinimum + step when exclusiveMinimum
\* is declared and minimum otherwise (the upper bound symmetrically), and it is
\* never looser than any declared bound; the widget is a slider exactly when
\* both bounds exist.
C33_IntegerBounds ==
    IntegerVisited =>
        LET f == FieldOf(call)
            kw == call.out[1].e
            step == IF f.multipleOf # <<>> THEN f.multipleOf[1] ELSE Hundredths
        IN  /\ kw.step = step
            /\ kw.min_value = IF f.exclusiveMinimum # <<>> THEN <<f.exclusiveMinimum[1] + step>>
                              ELSE f.minimum
            /\ kw.max_value = IF f.exclusiveMaximum # <<>> THEN <<f.exclusiveMaximum[1] - step>>
                              ELSE f.maximum
            /\ (kw.min_value # <<>> /\ f.minimum # <<>>) => kw.min_value[1] >= f.minimum[1]
            /\ (kw.min_value # <<>> /\ f.exclusiveMinimum # <<>>)
                   => kw.min_value[1] > f.exclusiveMinimum[1]
            /\ (kw.max_value # <<>> /\ f.maximum # <<>>) => kw.max_value[1] <= f.maximum[1]
            /\ (kw.max_value # <<>> /\ f.exclusiveMaximum # <<>>)
                   => kw.max_value[1] < f.exclusiveMaximum[1]
            /\ (kw.widget = "slider") = (kw.min_value # <<>> /\ kw.max_value # <<>>)
            /\ kw.widget \in {"slider", "number_input"}

TextVisited == call.fn = "render_text_input"
\* the text a visit returned does not match the pattern
Mismatch(text, pattern) == text.k = "str" /\ text.a # "" /\ ~re_match(pattern, text.a)

\* C34: a text-family property declared without a pattern is validated, on the
\* first and on every later visit by the same wizard, against the built-in
\* pattern of its kind, and a mismatch is reported with the message of the
\* kind; a declared pattern is never replaced.
C34_BuiltinPatternEveryWalk ==
    TextVisited =>
        LET kind == property_to_input_type(Declared(call))
            t == call.out[1].e
        IN  /\ (Declared(call).pattern = "" /\ BuiltinPattern(kind) # "") =>
                   t.msg = IF Mismatch(t.val, BuiltinPattern(kind)) THEN KindMessage(kind) ELSE ""
            /\ Declared(call).pattern # "" => FieldOf(call).pattern = Declared(call).pattern

\* ------------------------------------------- validation errors' contract ---
TopKey(i) == InputKey(Inp(WizardKey, NoClick, NoWidgets), Schema.properties[i].key)
\* what the widget of the top-level property i held in the walk
Entered(i) ==
    IF TopKey(i) \in DOMAIN widgets THEN widgets[TopKey(i)]
    ELSE DefaultOf(Schema.properties[i].schema)
EffectivePattern(schema) ==
    IF schema.pattern # "" THEN schema.pattern
    ELSE BuiltinPattern(property_to_input_type(schema))
\* the top-level property i is a text that does not match its effective pattern
TextFails(i) ==
    /\ property_to_input_type(Schema.properties[i].schema) \in TextKinds
    /\ EffectivePattern(Schema.properties[i].schema) # ""
    /\ Mismatch(Entered(i), EffectivePattern(Schema.properties[i].schema))
\* the top-level property i is a free-form input whose text does not parse
AnyFails(i) ==
    /\ property_to_input_type(Schema.properties[i].schema) = "any"
    /\ Entered(i).k = "str" /\ Entered(i).a # "" /\ ~json_loads(Entered(i).a).ok
\* the top-level property i is a set whose items held duplicates in the walk
SetFails(i) ==
    /\ op.act # "remove"
    /\ \E c \in ui.colls :
          c.key = Schema.properties[i].key /\ c.kind = "set" /\ c.out < c.n
WhatFails(i) ==
    IF TextFails(i) THEN "pattern" ELSE IF AnyFails(i) THEN "json"
    ELSE IF SetFails(i) THEN "duplicates" ELSE ""
ErrorOf(i) ==
    FieldError(IF WhatFails(i) = "duplicates" THEN Schema.properties[i].key ELSE TopKey(i),
               WhatFails(i))

C35_DuplicatesWitness ==
    /\ op.name = "walk" /\ schemaId = 16 /\ ~ret.err /\ SetFails(2)
    /\ FieldError("s", "duplicates") \in ui.errors /\ HasKey(ret.val.c, "z")

\* ------------------------------------------------- the dispatch's contract ---
Dispatched == call.fn = "dispatch"
\* position of the first event of the kind, 0 when there is none
FirstOf(events, what) ==
    IF \E i \in 1..Len(events) : events[i].what = what
    THEN CHOOSE i \in 1..Len(events) :
             events[i].what = what /\ \A j \in 1..(i - 1) : events[j].what # what
    ELSE 0

\* C36: a kind without handler gets a warning that names the property (its
\* title, else its key) before NotImplementedError is raised, the error is
\* never raised without that warning before it, and a kind with a handler gets
\* neither warning nor error from the dispatch.
C36_WarningBeforeUnsupported ==
    Dispatched =>
        LET d == call.out[1]
            named == IF call.args[1].title # "" THEN call.args[1].title ELSE call.args[3].a
            warned == FirstOf(d.events, "warning")
            raised == FirstOf(d.events, "raise")
        IN  /\ (d.handler = "") = (d.err = "NotImplementedError")
            /\ d.err \in {"", "NotImplementedError"}
            /\ (raised # 0) = (d.err # "")
            /\ raised # 0 =>
                   /\ warned # 0 /\ warned < raised
                   /\ d.events[warned].text =
                          "The type of the following property is currently not supported: "
                              \o named
            /\ d.handler # "" => d.events = <<>>
\* the dispatch of a kind without handler, on a property without title
C36_Witness ==
    /\ Dispatched /\ call.out[1].err = "NotImplementedError"
    /\ call.args[1].title = "" /\ call.args[3].a = "a.b"
    /\ Len(call.out[1].events) = 2

\* ------------------------------------------------- renaming's contract ---
\* the entries of the mapping d whose remove button was pressed in the walk
RemovedIn(d) ==
    {i \in 1..Len(d.data) :
        op.act = "remove" /\ op.id = d.key \o KEY_SEPARATOR \o d.data[i] \o "-remove"}

\* C37: no entry of a dict or of an additional-properties region is lost by
\* renaming: the mapping a walk returns has as many entries as the region
\* started the item loop with (the added one included), less the removed one,
\* whatever keys were entered.
C37_RenameLosesNoEntry ==
    op.name = "walk" =>
        \A d \in ui.dicts : Len(d.val.c) = Len(d.data) - Cardinality(RemovedIn(d))

\* ------------------------------------------------- the choice's contract ---
\* the union is rendered without a default, or with one that some branch of a
\* well-formed union matches
Choosing ==
    /\ call.fn = "render_union_input"
    /\ \/ UnionOf(call).default = <<>>
       \/ WellFormed(UnionOf(call)) /\ Matching(UnionOf(call)) # {}
\* the branch the option at the pre-selected index leads to
Designated(u, sel) ==
    union_mapped(union_branches(BranchesOf(u), sel, u.default[1]),
                 [i \in 1..Len(BranchesOf(u)) |-> UnionLabel(BranchesOf(u)[i])],
                 sel.options[sel.index + 1])

\* C38: the union choice offers exactly one option per branch of anyOf/oneOf,
\* in branch order, and with a default the pre-selected index is within the
\* options and designates the branch that matched the default; also when
\* several branches share a title or a type/format label.
C38_OneOptionPerBranch ==
    Choosing =>
        LET u == UnionOf(call)
            sel == call.out[1].sel
        IN  /\ sel.err = ""
            /\ Len(sel.options) = Len(BranchesOf(u))
            /\ \A i \in 1..Len(BranchesOf(u)) : sel.options[i] = UnionLabel(BranchesOf(u)[i])
            /\ u.default # <<>> =>
                  /\ sel.index = Smallest(Matching(u)) - 1
                  /\ Designated(u, sel).default = u.default

\* ------------------------------------------------- the items' contract ---
\* a walk in which no add, clear or remove button was pressed
QuietWalk == op.name = "walk" /\ op.act \in {"none", "edit", "key"} /\ ~ret.err
\* the top-level properties of the kinds given
PropsOf(kinds) ==
    {i \in 1..Len(Schema.properties) :
        property_to_input_type(Schema.properties[i].schema) \in kinds}
\* what the collection at position i held when the walk began: the stored
\* value, else the default of its schema (none when it has neither)
Before(i) ==
    LET stored_value == get_value(op.pre, Schema.properties[i].key).val
    IN  IF ~IsNone(stored_value) THEN stored_value
        ELSE DefaultOf(Schema.properties[i].schema)
\* the user has entered a value into the input rendered under the key
Edited(property_key) == InputKey(Inp(WizardKey, NoClick, widgets), property_key) \in DOMAIN widgets
\* item n of the list at position i held a string and the user left it alone
UneditedItem(i, n) ==
    /\ ~IsNone(Before(i))
    /\ n \in 1..Len(py_list(Before(i)))
    /\ py_list(Before(i))[n].k = "str"
    /\ ~Edited(Schema.properties[i].key \o KEY_SEPARATOR \o IntToStr(n - 1))
\* the same of entry n of the mapping at position i
UneditedEntry(i, n) ==
    /\ IsDict(Before(i))
    /\ n \in 1..Len(Before(i).c)
    /\ Before(i).c[n].val.k = "str"
    /\ ~Edited(Schema.properties[i].key \o KEY_SEPARATOR \o Before(i).c[n].key \o "-value")
\* the items of the list at position i in the walk's result
ReturnedItems(i) == ItemsOf(Lookup(ret.val.c, Schema.properties[i].key))
\* the list items keep their values
ItemsKept ==
    \A i \in PropsOf({"list", "tuple", "set"}) : \A n \in 1..MaxLen :
        UneditedItem(i, n) =>
            IF property_to_input_type(Schema.properties[i].schema) = "set"
            THEN \E m \in 1..Len(ReturnedItems(i)) : ReturnedItems(i)[m] = py_list(Before(i))[n]
            ELSE n <= Len(ReturnedItems(i)) /\ ReturnedItems(i)[n] = py_list(Before(i))[n]
\* the visit of each dict entry gives the value the entry held
EntriesKept ==
    \A i \in PropsOf({"dict"}) : \A n \in 1..MaxLen :
        UneditedEntry(i, n) =>
            \E e \in ui.entries :
                /\ e.at = Schema.properties[i].key \o KEY_SEPARATOR \o Before(i).c[n].key
                /\ e.val = Before(i).c[n].val

\* C39: an item of a list, tuple or set that holds a value is visited with
\* that value as its default, so an item the user does not edit keeps its
\* value in the result of the walk; dict entries are treated the same way.
C39_UneditedItemsKeepValue ==
    QuietWalk => ItemsKept /\ EntriesKept

\* ------------------------------------------------- the sentinel's contract ---
\* the keys of the mappings of a tree, at every depth
RECURSIVE KeysAtAnyDepth(_)
KeysAtAnyDepth(v) ==
    (IF IsDict(v) THEN {v.c[i].key : i \in 1..Len(v.c)} ELSE {})
        \cup UNION {KeysAtAnyDepth(v.c[i].val) : i \in 1..Len(v.c)}

\* C40: the reserved sentinel key is never a key, at any depth, of the tree a
\* walk returns, whatever the user has entered, an entry named like the
\* sentinel included.
C40_SentinelNeverReturned ==
    (op.name = "walk" /\ ~ret.err) => ADDITIONAL_PROPERTIES_KEY \notin KeysAtAnyDepth(ret.val)

============================================================================
